---------------------------- MODULE Spec2Model ----------------------------
(***************************************************************************)
(* Model of the concurrency core of the city simulation.                   *)
(*                                                                         *)
(* BoundedBuffer (src/GP/V2/src/core/buffer.py) is modelled as it is       *)
(* written: one threading.Lock shared by two threading.Condition objects   *)
(* (_not_full, _not_empty), a deque, a closed flag and the stats counters. *)
(* Every thread is a little program counter machine; each statement of a   *)
(* `with self._lock:` body that reads or writes shared state is one step,  *)
(* and only the lock holder steps inside the body.                         *)
(*                                                                         *)
(* threading.Condition is modelled by what CPython does: wait() appends a  *)
(* waiter to the condition's deque and releases the lock; it then blocks   *)
(* until notify() releases the waiter (wait returns True) or the timeout   *)
(* expires (wait returns False); either way it re-acquires the lock, and   *)
(* only then a timed-out waiter removes itself from the deque.  notify()   *)
(* releases and removes the head of the deque, notify_all() all of it.     *)
(*                                                                         *)
(* Left out: os_trace output, the perf_counter readings, op_id and         *)
(* op_counter/seq, which only feed the trace lines and decide nothing.     *)
(***************************************************************************)
EXTENDS Integers, Sequences, FiniteSets, TLC

\* ------------------------------------------------------------------ bounds
\* Number of threads that call into the buffer.
NumThreads == 3
\* Total number of calls (put, get, try_put, close) made in one behaviour.
MaxCalls == 5
\* Capacities explored: 1..MaxCapacity.
MaxCapacity == 2

Threads == 1..NumThreads
NoThread == 0
Capacities == 1..MaxCapacity

VARIABLES
    capacity,       \* BoundedBuffer.capacity
    buffer,         \* BoundedBuffer._buffer (deque), head first
    closed,         \* BoundedBuffer._closed
    stats,          \* BoundedBuffer.stats
    lock,           \* owner of BoundedBuffer._lock, NoThread when free
    waiters,        \* Condition._waiters of _not_full and _not_empty
    signalled,      \* per thread: its waiter lock was released by notify
    pc,             \* per thread: position in the method it executes
    op,             \* per thread: the method it executes
    item,           \* per thread: put's argument / get's local `item`
    timeout,        \* per thread: TRUE when called with a finite timeout
    success,        \* per thread: the value wait() returned
    ret,            \* per thread: what the call returned or raised
    nextItem,       \* identity of the next object handed to put/try_put
    calls,          \* number of calls made so far
    enq,            \* history: items in the order they were appended
    deq,            \* history: items in the order they were popped
    failed,         \* history: items whose put/try_put returned False or raised
    succeeded,      \* history: items whose put/try_put returned True
    snap,           \* history, per thread: shared state when it took the lock
    closedAtCall,   \* history, per thread: closed was set when it entered the lock
    blockedAtClose  \* history, per thread: in wait() when close() set the flag

vars == <<capacity, buffer, closed, stats, lock, waiters, signalled, pc, op,
          item, timeout, success, ret, nextItem, calls, enq, deq, failed,
          succeeded, snap, closedAtCall, blockedAtClose>>

\* ------------------------------------------------------------- values
NoItem == 0

RetPending == [kind |-> "pending", val |-> NoItem]
RetTrue    == [kind |-> "True", val |-> NoItem]
RetFalse   == [kind |-> "False", val |-> NoItem]
RetNone    == [kind |-> "None", val |-> NoItem]
RetDone    == [kind |-> "returned", val |-> NoItem]
RaiseValueError    == [kind |-> "ValueError", val |-> NoItem]
RaiseStopIteration == [kind |-> "StopIteration", val |-> NoItem]
RetItem(i) == [kind |-> "item", val |-> i]

InitStats == [puts |-> 0, gets |-> 0, waits_for_space |-> 0,
              waits_for_item |-> 0, drop_count |-> 0]

NoSnap == [buf |-> <<>>, closed |-> FALSE, stats |-> InitStats,
           nf |-> <<>>, ne |-> <<>>]

TakeSnap == [buf |-> buffer, closed |-> closed, stats |-> stats,
             nf |-> waiters.not_full, ne |-> waiters.not_empty]

\* ----------------------------------------------------- pure helpers
\* A full test that is off by one (`>` for `>=`).
IsFull_OffByOne(buf, cap) == Len(buf) > cap

\* len(self._buffer) >= self.capacity
IsFull(buf, cap) == Len(buf) >= cap

\* not self._buffer
IsEmpty(buf) == Len(buf) = 0

\* deque.append(item)
Append1(buf, i) == Append(buf, i)

\* deque.pop() in place of popleft(): the newest item is taken.
PopLeft_Right(buf) ==
    [item |-> buf[Len(buf)], rest |-> SubSeq(buf, 1, Len(buf) - 1)]

\* buf[0] in place of popleft(): the head is read and left in the deque.
PopLeft_Peek(buf) == [item |-> Head(buf), rest |-> buf]

\* deque.popleft(): the item returned and the deque left
PopLeft(buf) == [item |-> Head(buf), rest |-> Tail(buf)]

\* list.remove(waiter) guarded by try/except ValueError
RemoveWaiter(ws, t) == SelectSeq(ws, LAMBDA w : w # t)

SeqToSet(s) == {s[i] : i \in 1..Len(s)}

\* Condition.notify(): the head waiter is released and removed
NotifyTargets(ws) == IF Len(ws) = 0 THEN {} ELSE {Head(ws)}
NotifyRest(ws) == IF Len(ws) = 0 THEN ws ELSE Tail(ws)

\* Condition.notify_all(): every waiter is released and removed
NotifyAllTargets(ws) == SeqToSet(ws)

\* ------------------------------------------------------------- Init
BufferInit ==
    /\ capacity \in Capacities
    /\ buffer = <<>>
    /\ closed = FALSE
    /\ stats = InitStats
    /\ lock = NoThread
    /\ waiters = [not_full |-> <<>>, not_empty |-> <<>>]
    /\ signalled = [t \in Threads |-> FALSE]
    /\ pc = [t \in Threads |-> "idle"]
    /\ op = [t \in Threads |-> "none"]
    /\ item = [t \in Threads |-> NoItem]
    /\ timeout = [t \in Threads |-> FALSE]
    /\ success = [t \in Threads |-> FALSE]
    /\ ret = [t \in Threads |-> RetPending]
    /\ nextItem = 1
    /\ calls = 0
    /\ enq = <<>>
    /\ deq = <<>>
    /\ failed = {}
    /\ succeeded = {}
    /\ snap = [t \in Threads |-> NoSnap]
    /\ closedAtCall = [t \in Threads |-> FALSE]
    /\ blockedAtClose = [t \in Threads |-> FALSE]

bufState == <<capacity, buffer, closed, stats>>
history == <<enq, deq, failed, succeeded>>
locals == <<op, item, timeout, success>>

\* ------------------------------------------------------------- calls
\* A thread that is not inside a call makes one and enters `with self._lock:`.
\* Nothing a method does before it holds the lock touches the buffer, so the
\* call starts where the lock is taken.  Threads outside a call are
\* interchangeable, so the call is given to the first of them.
BeginCall(t, o, i, to, first) ==
    /\ pc[t] = "idle"
    /\ \A u \in Threads : u < t => pc[u] # "idle"
    /\ calls < MaxCalls
    /\ lock = NoThread
    /\ lock' = t
    /\ calls' = calls + 1
    /\ pc' = [pc EXCEPT ![t] = first]
    /\ op' = [op EXCEPT ![t] = o]
    /\ item' = [item EXCEPT ![t] = i]
    /\ timeout' = [timeout EXCEPT ![t] = to]
    /\ snap' = [snap EXCEPT ![t] = TakeSnap]
    /\ closedAtCall' = [closedAtCall EXCEPT ![t] = closed]
    /\ UNCHANGED <<bufState, waiters, signalled, success, ret, blockedAtClose,
                   history>>

\* put(item, timeout)
PutCall(t) ==
    /\ \E to \in BOOLEAN : BeginCall(t, "put", nextItem, to, "put_closed")
    /\ nextItem' = nextItem + 1

\* get(timeout)
GetCall(t) ==
    /\ \E to \in BOOLEAN : BeginCall(t, "get", NoItem, to, "get_loop")
    /\ UNCHANGED nextItem

\* try_put(item)
TryPutCall(t) ==
    /\ BeginCall(t, "try_put", nextItem, FALSE, "try_check")
    /\ nextItem' = nextItem + 1

\* close()
CloseCall(t) ==
    /\ BeginCall(t, "close", NoItem, FALSE, "close_set")
    /\ UNCHANGED nextItem

\* `with self._lock:` left, by return or by raise: the lock is released and
\* the caller has its result; the frame's locals are gone.
Exit(t) ==
    /\ pc[t] = "exit"
    /\ lock = t
    /\ lock' = NoThread
    /\ pc' = [pc EXCEPT ![t] = "idle"]
    /\ op' = [op EXCEPT ![t] = "none"]
    /\ item' = [item EXCEPT ![t] = NoItem]
    /\ timeout' = [timeout EXCEPT ![t] = FALSE]
    /\ success' = [success EXCEPT ![t] = FALSE]
    /\ ret' = [ret EXCEPT ![t] = RetPending]
    /\ snap' = [snap EXCEPT ![t] = NoSnap]
    /\ closedAtCall' = [closedAtCall EXCEPT ![t] = FALSE]
    /\ blockedAtClose' = [blockedAtClose EXCEPT ![t] = FALSE]
    /\ UNCHANGED <<bufState, waiters, signalled, nextItem, calls, history>>

\* ------------------------------------------------------------- close
\* close() that flips the flag instead of setting it.
CloseSet_Toggle(t) ==
    /\ pc[t] = "close_set"
    /\ lock = t
    /\ closed' = ~closed
    /\ pc' = [pc EXCEPT ![t] = "close_notify_empty"]
    /\ blockedAtClose' = [u \in Threads |->
          blockedAtClose[u] \/ pc[u] \in {"put_wait", "put_timedout",
                                          "get_wait", "get_timedout"}]
    /\ UNCHANGED <<capacity, buffer, stats, lock, waiters, signalled, locals,
                   ret, nextItem, calls, history, snap, closedAtCall>>

\* self._closed = True
CloseSet(t) ==
    /\ pc[t] = "close_set"
    /\ lock = t
    /\ closed' = TRUE
    /\ pc' = [pc EXCEPT ![t] = "close_notify_empty"]
    /\ blockedAtClose' = [u \in Threads |->
          blockedAtClose[u] \/ pc[u] \in {"put_wait", "put_timedout",
                                          "get_wait", "get_timedout"}]
    /\ UNCHANGED <<capacity, buffer, stats, lock, waiters, signalled, locals,
                   ret, nextItem, calls, history, snap, closedAtCall>>

\* self._not_empty.notify_all()
CloseNotifyEmpty(t) ==
    /\ pc[t] = "close_notify_empty"
    /\ lock = t
    /\ signalled' = [u \in Threads |->
          signalled[u] \/ u \in NotifyAllTargets(waiters.not_empty)]
    /\ waiters' = [waiters EXCEPT !.not_empty = <<>>]
    /\ pc' = [pc EXCEPT ![t] = "close_notify_full"]
    /\ UNCHANGED <<bufState, lock, locals, ret, nextItem, calls, history,
                   snap, closedAtCall, blockedAtClose>>

\* close() that wakes the consumers only.
CloseNotifyFull_NoNotify(t) ==
    /\ pc[t] = "close_notify_full"
    /\ lock = t
    /\ pc' = [pc EXCEPT ![t] = "exit"]
    /\ ret' = [ret EXCEPT ![t] = RetDone]
    /\ UNCHANGED <<bufState, lock, waiters, signalled, locals, nextItem, calls,
                   history, snap, closedAtCall, blockedAtClose>>

\* self._not_full.notify_all(); close() returns None
CloseNotifyFull(t) ==
    /\ pc[t] = "close_notify_full"
    /\ lock = t
    /\ signalled' = [u \in Threads |->
          signalled[u] \/ u \in NotifyAllTargets(waiters.not_full)]
    /\ waiters' = [waiters EXCEPT !.not_full = <<>>]
    /\ pc' = [pc EXCEPT ![t] = "exit"]
    /\ ret' = [ret EXCEPT ![t] = RetDone]
    /\ UNCHANGED <<bufState, lock, locals, nextItem, calls, history,
                   snap, closedAtCall, blockedAtClose>>

\* ------------------------------------------------- Condition.wait
\* cond.wait(timeout): enqueue the waiter, release the lock, block
WaitBegin(t, cond, next) ==
    /\ waiters' = [waiters EXCEPT ![cond] = Append(@, t)]
    /\ signalled' = [signalled EXCEPT ![t] = FALSE]
    /\ lock' = NoThread
    /\ snap' = snap
    /\ pc' = [pc EXCEPT ![t] = next]

\* the timeout expired before a notify released the waiter lock: wait() will
\* return False once it has the lock again; until then the waiter is still in
\* the condition's deque
WaitTimedOut(t, at, next) ==
    /\ pc[t] = at
    /\ timeout[t]
    /\ ~signalled[t]
    /\ pc' = [pc EXCEPT ![t] = next]
    /\ UNCHANGED <<bufState, lock, waiters, signalled, locals, ret,
                   nextItem, calls, history, snap, closedAtCall, blockedAtClose>>

\* wait() re-acquires the lock, after a notify (it returns True) or after the
\* timeout (it returns False, and the waiter leaves the deque)
WaitReacquire(t, cond, waiting, timedout, next) ==
    /\ \/ pc[t] = waiting /\ signalled[t]
       \/ pc[t] = timedout
    /\ lock = NoThread
    /\ lock' = t
    /\ success' = [success EXCEPT ![t] = (pc[t] = waiting)]
    /\ waiters' = IF pc[t] = waiting THEN waiters
                  ELSE [waiters EXCEPT ![cond] = RemoveWaiter(@, t)]
    /\ signalled' = [signalled EXCEPT ![t] = FALSE]
    /\ pc' = [pc EXCEPT ![t] = next]
    /\ UNCHANGED <<bufState, op, item, timeout, ret, nextItem, calls, history,
                   snap, closedAtCall, blockedAtClose>>

\* --------------------------------------------------------------- put
\* if self._closed: raise ValueError
PutClosedCheck(t) ==
    /\ pc[t] = "put_closed"
    /\ lock = t
    /\ IF closed
       THEN /\ ret' = [ret EXCEPT ![t] = RaiseValueError]
            /\ failed' = failed \cup {item[t]}
            /\ pc' = [pc EXCEPT ![t] = "exit"]
       ELSE /\ pc' = [pc EXCEPT ![t] = "put_loop"]
            /\ UNCHANGED <<ret, failed>>
    /\ UNCHANGED <<bufState, lock, waiters, signalled, locals, nextItem, calls,
                   enq, deq, succeeded, snap, closedAtCall, blockedAtClose>>

\* put that books a drop whenever it has to wait for space.
PutLoop_DropOnWait(t) ==
    /\ pc[t] = "put_loop"
    /\ lock = t
    /\ IF IsFull(buffer, capacity)
       THEN /\ stats' = [stats EXCEPT !.waits_for_space = @ + 1,
                                      !.drop_count = @ + 1]
            /\ WaitBegin(t, "not_full", "put_wait")
       ELSE /\ pc' = [pc EXCEPT ![t] = "put_append"]
            /\ UNCHANGED <<stats, lock, waiters, signalled, snap>>
    /\ UNCHANGED <<capacity, buffer, closed, locals, ret, nextItem, calls,
                   history, closedAtCall, blockedAtClose>>

\* while len(self._buffer) >= self.capacity: waits_for_space += 1; wait
PutLoop(t) ==
    /\ pc[t] = "put_loop"
    /\ lock = t
    /\ IF IsFull(buffer, capacity)
       THEN /\ stats' = [stats EXCEPT !.waits_for_space = @ + 1]
            /\ WaitBegin(t, "not_full", "put_wait")
       ELSE /\ pc' = [pc EXCEPT ![t] = "put_append"]
            /\ UNCHANGED <<stats, lock, waiters, signalled, snap>>
    /\ UNCHANGED <<capacity, buffer, closed, locals, ret, nextItem, calls,
                   history, closedAtCall, blockedAtClose>>

PutTimedOut(t) == WaitTimedOut(t, "put_wait", "put_timedout")

PutReacquire(t) ==
    WaitReacquire(t, "not_full", "put_wait", "put_timedout", "put_woke")

\* put that does not look at the closed flag again after its wait.
PutWoke_NoClosedCheck(t) ==
    /\ pc[t] = "put_woke"
    /\ lock = t
    /\ IF ~success[t]
       THEN /\ ret' = [ret EXCEPT ![t] = RetFalse]
            /\ failed' = failed \cup {item[t]}
            /\ pc' = [pc EXCEPT ![t] = "exit"]
       ELSE /\ pc' = [pc EXCEPT ![t] = "put_loop"]
            /\ UNCHANGED <<ret, failed>>
    /\ UNCHANGED <<bufState, lock, waiters, signalled, locals, nextItem, calls,
                   enq, deq, succeeded, snap, closedAtCall, blockedAtClose>>

\* put that tests the timeout before the closed flag, as get does.
PutWoke_TimeoutFirst(t) ==
    /\ pc[t] = "put_woke"
    /\ lock = t
    /\ IF ~success[t]
       THEN /\ ret' = [ret EXCEPT ![t] = RetFalse]
            /\ failed' = failed \cup {item[t]}
            /\ pc' = [pc EXCEPT ![t] = "exit"]
       ELSE IF closed
       THEN /\ ret' = [ret EXCEPT ![t] = RaiseValueError]
            /\ failed' = failed \cup {item[t]}
            /\ pc' = [pc EXCEPT ![t] = "exit"]
       ELSE /\ pc' = [pc EXCEPT ![t] = "put_loop"]
            /\ UNCHANGED <<ret, failed>>
    /\ UNCHANGED <<bufState, lock, waiters, signalled, locals, nextItem, calls,
                   enq, deq, succeeded, snap, closedAtCall, blockedAtClose>>

\* after wait: if self._closed: raise; if not success: return False
PutWoke(t) ==
    /\ pc[t] = "put_woke"
    /\ lock = t
    /\ IF closed
       THEN /\ ret' = [ret EXCEPT ![t] = RaiseValueError]
            /\ failed' = failed \cup {item[t]}
            /\ pc' = [pc EXCEPT ![t] = "exit"]
       ELSE IF ~success[t]
       THEN /\ ret' = [ret EXCEPT ![t] = RetFalse]
            /\ failed' = failed \cup {item[t]}
            /\ pc' = [pc EXCEPT ![t] = "exit"]
       ELSE /\ pc' = [pc EXCEPT ![t] = "put_loop"]
            /\ UNCHANGED <<ret, failed>>
    /\ UNCHANGED <<bufState, lock, waiters, signalled, locals, nextItem, calls,
                   enq, deq, succeeded, snap, closedAtCall, blockedAtClose>>

\* self._buffer.append(item)
PutAppend(t) ==
    /\ pc[t] = "put_append"
    /\ lock = t
    /\ buffer' = Append1(buffer, item[t])
    /\ enq' = Append(enq, item[t])
    /\ pc' = [pc EXCEPT ![t] = "put_count"]
    /\ UNCHANGED <<capacity, closed, stats, lock, waiters, signalled, locals,
                   ret, nextItem, calls, deq, failed, succeeded, snap,
                   closedAtCall, blockedAtClose>>

\* self.stats["puts"] += 1
PutCount(t) ==
    /\ pc[t] = "put_count"
    /\ lock = t
    /\ stats' = [stats EXCEPT !.puts = @ + 1]
    /\ pc' = [pc EXCEPT ![t] = "put_notify"]
    /\ UNCHANGED <<capacity, buffer, closed, lock, waiters, signalled, locals,
                   ret, nextItem, calls, history, snap, closedAtCall,
                   blockedAtClose>>

\* self._not_empty.notify(); return True
PutNotify(t) ==
    /\ pc[t] = "put_notify"
    /\ lock = t
    /\ signalled' = [u \in Threads |->
          signalled[u] \/ u \in NotifyTargets(waiters.not_empty)]
    /\ waiters' = [waiters EXCEPT !.not_empty = NotifyRest(@)]
    /\ ret' = [ret EXCEPT ![t] = RetTrue]
    /\ succeeded' = succeeded \cup {item[t]}
    /\ pc' = [pc EXCEPT ![t] = "exit"]
    /\ UNCHANGED <<bufState, lock, locals, nextItem, calls, enq, deq, failed, snap,
                   closedAtCall, blockedAtClose>>

\* --------------------------------------------------------------- get
\* get that raises as soon as the buffer is closed, queued items or not.
GetLoop_ClosedFirst(t) ==
    /\ pc[t] = "get_loop"
    /\ lock = t
    /\ IF closed
       THEN /\ ret' = [ret EXCEPT ![t] = RaiseStopIteration]
            /\ pc' = [pc EXCEPT ![t] = "exit"]
            /\ UNCHANGED <<stats, lock, waiters, signalled, snap>>
       ELSE IF IsEmpty(buffer)
       THEN /\ stats' = [stats EXCEPT !.waits_for_item = @ + 1]
            /\ WaitBegin(t, "not_empty", "get_wait")
            /\ UNCHANGED ret
       ELSE /\ pc' = [pc EXCEPT ![t] = "get_pop"]
            /\ UNCHANGED <<stats, lock, waiters, signalled, ret, snap>>
    /\ UNCHANGED <<capacity, buffer, closed, locals, nextItem, calls,
                   history, closedAtCall, blockedAtClose>>

\* while not self._buffer: if self._closed: raise StopIteration;
\*                         waits_for_item += 1; wait
GetLoop(t) ==
    /\ pc[t] = "get_loop"
    /\ lock = t
    /\ IF IsEmpty(buffer)
       THEN IF closed
            THEN /\ ret' = [ret EXCEPT ![t] = RaiseStopIteration]
                 /\ pc' = [pc EXCEPT ![t] = "exit"]
                 /\ UNCHANGED <<stats, lock, waiters, signalled, snap>>
            ELSE /\ stats' = [stats EXCEPT !.waits_for_item = @ + 1]
                 /\ WaitBegin(t, "not_empty", "get_wait")
                 /\ UNCHANGED ret
       ELSE /\ pc' = [pc EXCEPT ![t] = "get_pop"]
            /\ UNCHANGED <<stats, lock, waiters, signalled, ret, snap>>
    /\ UNCHANGED <<capacity, buffer, closed, locals, nextItem, calls,
                   history, closedAtCall, blockedAtClose>>

GetTimedOut(t) == WaitTimedOut(t, "get_wait", "get_timedout")

GetReacquire(t) ==
    WaitReacquire(t, "not_empty", "get_wait", "get_timedout", "get_woke")

\* after wait: if not success: return None
GetWoke(t) ==
    /\ pc[t] = "get_woke"
    /\ lock = t
    /\ IF ~success[t]
       THEN /\ ret' = [ret EXCEPT ![t] = RetNone]
            /\ pc' = [pc EXCEPT ![t] = "exit"]
       ELSE /\ pc' = [pc EXCEPT ![t] = "get_loop"]
            /\ UNCHANGED ret
    /\ UNCHANGED <<bufState, lock, waiters, signalled, locals, nextItem, calls,
                   history, snap, closedAtCall, blockedAtClose>>

\* item = self._buffer.popleft()
GetPop(t) ==
    /\ pc[t] = "get_pop"
    /\ lock = t
    /\ item' = [item EXCEPT ![t] = PopLeft(buffer).item]
    /\ buffer' = PopLeft(buffer).rest
    /\ deq' = Append(deq, PopLeft(buffer).item)
    /\ pc' = [pc EXCEPT ![t] = "get_count"]
    /\ UNCHANGED <<capacity, closed, stats, lock, waiters, signalled, op,
                   timeout, success, ret, nextItem, calls, enq, failed,
                   succeeded, snap, closedAtCall, blockedAtClose>>

\* self.stats["gets"] += 1
GetCount(t) ==
    /\ pc[t] = "get_count"
    /\ lock = t
    /\ stats' = [stats EXCEPT !.gets = @ + 1]
    /\ pc' = [pc EXCEPT ![t] = "get_notify"]
    /\ UNCHANGED <<capacity, buffer, closed, lock, waiters, signalled, locals,
                   ret, nextItem, calls, history, snap, closedAtCall,
                   blockedAtClose>>

\* self._not_full.notify(); return item
GetNotify(t) ==
    /\ pc[t] = "get_notify"
    /\ lock = t
    /\ signalled' = [u \in Threads |->
          signalled[u] \/ u \in NotifyTargets(waiters.not_full)]
    /\ waiters' = [waiters EXCEPT !.not_full = NotifyRest(@)]
    /\ ret' = [ret EXCEPT ![t] = RetItem(item[t])]
    /\ pc' = [pc EXCEPT ![t] = "exit"]
    /\ UNCHANGED <<bufState, lock, locals, nextItem, calls, history, snap,
                   closedAtCall, blockedAtClose>>

\* ----------------------------------------------------------- try_put
\* if self._closed: return False
\* if len(self._buffer) >= self.capacity: drop_count += 1; return False
TryPutCheck(t) ==
    /\ pc[t] = "try_check"
    /\ lock = t
    /\ IF closed
       THEN /\ ret' = [ret EXCEPT ![t] = RetFalse]
            /\ failed' = failed \cup {item[t]}
            /\ pc' = [pc EXCEPT ![t] = "exit"]
            /\ UNCHANGED stats
       ELSE IF IsFull(buffer, capacity)
       THEN /\ stats' = [stats EXCEPT !.drop_count = @ + 1]
            /\ ret' = [ret EXCEPT ![t] = RetFalse]
            /\ failed' = failed \cup {item[t]}
            /\ pc' = [pc EXCEPT ![t] = "exit"]
       ELSE /\ pc' = [pc EXCEPT ![t] = "try_append"]
            /\ UNCHANGED <<stats, ret, failed>>
    /\ UNCHANGED <<capacity, buffer, closed, lock, waiters, signalled, locals,
                   nextItem, calls, enq, deq, succeeded, snap, closedAtCall,
                   blockedAtClose>>

\* self._buffer.append(item)
TryPutAppend(t) ==
    /\ pc[t] = "try_append"
    /\ lock = t
    /\ buffer' = Append1(buffer, item[t])
    /\ enq' = Append(enq, item[t])
    /\ pc' = [pc EXCEPT ![t] = "try_count"]
    /\ UNCHANGED <<capacity, closed, stats, lock, waiters, signalled, locals,
                   ret, nextItem, calls, deq, failed, succeeded, snap,
                   closedAtCall, blockedAtClose>>

\* try_put that forgets to count the item it appended.
TryPutCount_NoCount(t) ==
    /\ pc[t] = "try_count"
    /\ lock = t
    /\ pc' = [pc EXCEPT ![t] = "try_notify"]
    /\ UNCHANGED <<bufState, lock, waiters, signalled, locals,
                   ret, nextItem, calls, history, snap, closedAtCall,
                   blockedAtClose>>

\* self.stats["puts"] += 1
TryPutCount(t) ==
    /\ pc[t] = "try_count"
    /\ lock = t
    /\ stats' = [stats EXCEPT !.puts = @ + 1]
    /\ pc' = [pc EXCEPT ![t] = "try_notify"]
    /\ UNCHANGED <<capacity, buffer, closed, lock, waiters, signalled, locals,
                   ret, nextItem, calls, history, snap, closedAtCall,
                   blockedAtClose>>

\* self._not_empty.notify(); return True
TryPutNotify(t) ==
    /\ pc[t] = "try_notify"
    /\ lock = t
    /\ signalled' = [u \in Threads |->
          signalled[u] \/ u \in NotifyTargets(waiters.not_empty)]
    /\ waiters' = [waiters EXCEPT !.not_empty = NotifyRest(@)]
    /\ ret' = [ret EXCEPT ![t] = RetTrue]
    /\ succeeded' = succeeded \cup {item[t]}
    /\ pc' = [pc EXCEPT ![t] = "exit"]
    /\ UNCHANGED <<bufState, lock, locals, nextItem, calls, enq, deq, failed, snap,
                   closedAtCall, blockedAtClose>>

\* ====================================================================
\* SqlLogger (src/GP/V2/src/data/database.py): the telemetry sink.
\*
\* One controlling thread calls start() and stop(), one client thread calls
\* log(); every statement of theirs that reads or writes shared state is a
\* step.  Each threading.Thread object made for _writer_loop has a life
\* ("new" until started, "alive" while _writer_loop runs, "dead" after) and
\* its own locals.  The store is the run row (runs.id is a primary key) and
\* the rows of committed events; `pending` holds what a writer has executed
\* on its connection and not yet committed.  join(timeout=...) on a live
\* thread may return because the timeout expired.  A statement or a commit
\* may fail (WriterWriteFault, WriterCommitFault); sqlite3 leaves the
\* transaction open then, and the loop's `except Exception: continue` goes
\* on.  The dashboard's reads are left out.

\* Calls of start()/stop() made by the controlling thread in one behaviour.
MaxCtlCalls == 4
\* Events handed to log() in one behaviour.
MaxEvents == 3
\* BATCH_SIZE of _writer_loop (50 in the source), scaled down with the
\* number of events so that a full batch occurs.
BATCH_SIZE == 2

Events == 1..MaxEvents
Sentinel == 0
WriterIds == 1..(MaxCtlCalls + 1)

VARIABLES
    sink_running,   \* SqlLogger._running
    sink_queue,     \* SqlLogger._queue, oldest entry first
    run_recorded,   \* the store holds a row of runs with id = self.run_id
    writer_thread,  \* SqlLogger._writer_thread: the Thread object it names
    wstate,         \* per Thread object: "none", "new", "alive", "dead"
    wpc,            \* per Thread object: position in _writer_loop
    batch,          \* per Thread object: the local `batch`
    pending,        \* per Thread object: rows executed, not yet committed
    committed,      \* the store: event rows in the order they were committed
    cpc,            \* controlling thread: position in the call it executes
    cop,            \* controlling thread: the call it made last
    cres,           \* controlling thread: how that call ended
    cret,           \* controlling thread: where a nested call returns to
    ccalls,         \* number of calls the controlling thread has made
    lpc,            \* client thread: position in log()
    levent,         \* client thread: the event it is logging
    nextEvent,      \* identity of the next event handed to log()
    removed,        \* history: events in the order they left the queue
    accepted,       \* history: events log() has put on the queue
    sealed,         \* history: events accepted before a sentinel was pushed
    batches         \* history: the batches handed to _write_batch

sinkState == <<sink_running, sink_queue, run_recorded, writer_thread, wstate>>
writerLocals == <<wpc, batch, pending>>
ctl == <<cpc, cop, cres, cret, ccalls>>
client == <<lpc, levent, nextEvent>>
sinkHistory == <<removed, accepted, sealed, batches>>
sinkVars == <<sinkState, writerLocals, committed, client, sinkHistory>>

\* SqlLogger.__init__, and a controlling thread that has made no call
SinkInit ==
    /\ sink_running = FALSE
    /\ sink_queue = <<>>
    /\ run_recorded = FALSE
    /\ writer_thread = 1
    /\ wstate = [w \in WriterIds |-> IF w = 1 THEN "new" ELSE "none"]
    /\ wpc = [w \in WriterIds |-> "w_none"]
    /\ batch = [w \in WriterIds |-> <<>>]
    /\ pending = [w \in WriterIds |-> <<>>]
    /\ committed = <<>>
    /\ lpc = "idle"
    /\ levent = Sentinel
    /\ nextEvent = 1
    /\ removed = <<>>
    /\ accepted = <<>>
    /\ sealed = {}
    /\ batches = {}

CtlInit ==
    /\ cpc = "idle"
    /\ cop = "none"
    /\ cres = "none"
    /\ cret = "idle"
    /\ ccalls = 0

\* the controlling thread makes a call from the top level
CtlCall(o, first) ==
    /\ cpc = "idle"
    /\ ccalls < MaxCtlCalls
    /\ ccalls' = ccalls + 1
    /\ cop' = o
    /\ cres' = "pending"
    /\ cret' = "idle"
    /\ cpc' = first

\* a call ends: normally (control goes on where the call was made) or by an
\* exception, which nothing on the way up catches
CtlReturn(res) ==
    /\ cres' = IF res = "ok" /\ cret # "idle" THEN cres ELSE res
    /\ cpc' = IF res = "ok" THEN cret ELSE "idle"
    /\ cret' = "idle"
    /\ UNCHANGED <<cop, ccalls>>

\* the Thread object a `threading.Thread(...)` expression makes
FreshWriter ==
    CHOOSE w \in WriterIds :
        wstate[w] = "none" /\ \A v \in WriterIds : wstate[v] = "none" => w <= v

\* ------------------------------------------------------- SqlLogger.start
SinkStartCall ==
    /\ CtlCall("sink_start", "start_flag")
    /\ UNCHANGED sinkVars

\* self._init_schema(); self._running = True
SinkStartFlag ==
    /\ cpc = "start_flag"
    /\ sink_running' = TRUE
    /\ cpc' = "start_thread"
    /\ UNCHANGED <<sink_queue, run_recorded, writer_thread, wstate,
                   writerLocals, committed, cop, cres, cret, ccalls, client,
                   sinkHistory>>

\* a Thread object's run begins: _writer_loop opens its connection
StartWriter(w) ==
    /\ wstate' = [wstate EXCEPT ![w] = "alive"]
    /\ wpc' = [wpc EXCEPT ![w] = "w_loop"]

\* start() that does not ask is_alive(): starting a started thread raises
\* RuntimeError and the handler makes a second writer.
SinkStartThread_NoAliveCheck ==
    /\ cpc = "start_thread"
    /\ IF wstate[writer_thread] = "new"
       THEN /\ StartWriter(writer_thread)
            /\ UNCHANGED writer_thread
       ELSE /\ writer_thread' = FreshWriter
            /\ StartWriter(FreshWriter)
    /\ cpc' = "start_run"
    /\ UNCHANGED <<sink_running, sink_queue, run_recorded, batch, pending,
                   committed, cop, cres, cret, ccalls, client, sinkHistory>>

\* if not self._writer_thread.is_alive(): try start(); a thread that was
\* started before raises RuntimeError and a fresh Thread is made and started
SinkStartThread ==
    /\ cpc = "start_thread"
    /\ CASE wstate[writer_thread] = "alive" ->
                UNCHANGED <<writer_thread, wstate, wpc>>
         [] wstate[writer_thread] = "new" ->
                /\ StartWriter(writer_thread)
                /\ UNCHANGED writer_thread
         [] OTHER ->
                /\ writer_thread' = FreshWriter
                /\ StartWriter(FreshWriter)
    /\ cpc' = "start_run"
    /\ UNCHANGED <<sink_running, sink_queue, run_recorded, batch, pending,
                   committed, cop, cres, cret, ccalls, client, sinkHistory>>

\* INSERT INTO runs (id, started_at): runs.id is the primary key, so a row
\* with this run_id can be inserted once (sqlite3.IntegrityError after that)
SinkStartRun ==
    /\ cpc = "start_run"
    /\ IF run_recorded
       THEN /\ CtlReturn("IntegrityError")
            /\ UNCHANGED run_recorded
       ELSE /\ run_recorded' = TRUE
            /\ CtlReturn("ok")
    /\ UNCHANGED <<sink_running, sink_queue, writer_thread, wstate,
                   writerLocals, committed, client, sinkHistory>>

\* -------------------------------------------------------- SqlLogger.stop
SinkStopCall ==
    /\ CtlCall("sink_stop", "stop_flag")
    /\ UNCHANGED sinkVars

\* self._running = False
SinkStopFlag ==
    /\ cpc = "stop_flag"
    /\ sink_running' = FALSE
    /\ cpc' = "stop_put"
    /\ UNCHANGED <<sink_queue, run_recorded, writer_thread, wstate,
                   writerLocals, committed, cop, cres, cret, ccalls, client,
                   sinkHistory>>

\* self._queue.put(None)
SinkStopPut ==
    /\ cpc = "stop_put"
    /\ sink_queue' = Append(sink_queue, Sentinel)
    /\ sealed' = sealed \cup {accepted[k] : k \in 1..Len(accepted)}
    /\ cpc' = "stop_join"
    /\ UNCHANGED <<sink_running, run_recorded, writer_thread, wstate,
                   writerLocals, committed, cop, cres, cret, ccalls, client,
                   removed, accepted, batches>>

\* self._writer_thread.join(timeout=2.0): RuntimeError on a thread that was
\* never started; otherwise it returns, because the thread has ended or
\* because the timeout has expired
SinkStopJoin ==
    /\ cpc = "stop_join"
    /\ IF wstate[writer_thread] = "new"
       THEN CtlReturn("RuntimeError")
       ELSE CtlReturn("ok")
    /\ UNCHANGED sinkVars

\* --------------------------------------------------------- SqlLogger.log
\* if not self._running: return
LogCall ==
    /\ lpc = "idle"
    /\ nextEvent <= MaxEvents
    /\ nextEvent' = nextEvent + 1
    /\ IF sink_running
       THEN /\ lpc' = "log_put"
            /\ levent' = nextEvent
       ELSE UNCHANGED <<lpc, levent>>
    /\ UNCHANGED <<sinkState, writerLocals, committed, ctl, sinkHistory>>

\* self._queue.put(event)
LogPut ==
    /\ lpc = "log_put"
    /\ sink_queue' = Append(sink_queue, levent)
    /\ accepted' = Append(accepted, levent)
    /\ lpc' = "idle"
    /\ levent' = Sentinel
    /\ UNCHANGED <<sink_running, run_recorded, writer_thread, wstate,
                   writerLocals, committed, ctl, nextEvent, removed, sealed,
                   batches>>

\* -------------------------------------------------- SqlLogger._writer_loop
\* while self._running or not self._queue.empty(): ... conn.close()
WriterLoop(w) ==
    /\ wstate[w] = "alive"
    /\ wpc[w] = "w_loop"
    /\ wpc' = [wpc EXCEPT ![w] =
                  IF sink_running \/ sink_queue # <<>> THEN "w_get"
                  ELSE "w_close"]
    /\ batch' = [batch EXCEPT ![w] = <<>>]
    /\ UNCHANGED <<sinkState, pending, committed, ctl, client, sinkHistory>>

\* writer that reads the head of the queue and leaves it there.
WriterGet_Peek(w) ==
    /\ wstate[w] = "alive"
    /\ wpc[w] = "w_get"
    /\ IF sink_queue = <<>>
       THEN /\ wpc' = [wpc EXCEPT ![w] = "w_loop"]
            /\ UNCHANGED <<batch, removed>>
       ELSE IF Head(sink_queue) = Sentinel
            THEN /\ wpc' = [wpc EXCEPT ![w] = "w_close"]
                 /\ UNCHANGED <<batch, removed>>
            ELSE /\ batch' = [batch EXCEPT ![w] = <<Head(sink_queue)>>]
                 /\ removed' = Append(removed, Head(sink_queue))
                 /\ wpc' = [wpc EXCEPT ![w] = "w_fill"]
    /\ UNCHANGED <<sinkState, pending, committed, ctl, client, accepted,
                   sealed, batches>>

\* item = self._queue.get(timeout=1.0): queue.Empty after the timeout is
\* caught by `except Exception: continue`; None ends the loop
WriterGet(w) ==
    /\ wstate[w] = "alive"
    /\ wpc[w] = "w_get"
    /\ IF sink_queue = <<>>
       THEN /\ wpc' = [wpc EXCEPT ![w] = "w_loop"]
            /\ UNCHANGED <<sink_queue, batch, removed>>
       ELSE /\ sink_queue' = Tail(sink_queue)
            /\ IF Head(sink_queue) = Sentinel
               THEN /\ wpc' = [wpc EXCEPT ![w] = "w_close"]
                    /\ UNCHANGED <<batch, removed>>
               ELSE /\ batch' = [batch EXCEPT ![w] = <<Head(sink_queue)>>]
                    /\ removed' = Append(removed, Head(sink_queue))
                    /\ wpc' = [wpc EXCEPT ![w] = "w_fill"]
    /\ UNCHANGED <<sink_running, run_recorded, writer_thread, wstate, pending,
                   committed, ctl, client, accepted, sealed, batches>>

\* for _ in range(BATCH_SIZE - 1): one pass; a None met here clears _running
WriterFill(w) ==
    /\ wstate[w] = "alive"
    /\ wpc[w] = "w_fill"
    /\ IF Len(batch[w]) >= BATCH_SIZE \/ sink_queue = <<>>
       THEN /\ wpc' = [wpc EXCEPT ![w] = "w_write"]
            /\ UNCHANGED <<sink_running, sink_queue, batch, removed>>
       ELSE /\ sink_queue' = Tail(sink_queue)
            /\ IF Head(sink_queue) = Sentinel
               THEN /\ sink_running' = FALSE
                    /\ wpc' = [wpc EXCEPT ![w] = "w_write"]
                    /\ UNCHANGED <<batch, removed>>
               ELSE /\ batch' = [batch EXCEPT ![w] =
                                    Append(@, Head(sink_queue))]
                    /\ removed' = Append(removed, Head(sink_queue))
                    /\ UNCHANGED <<sink_running, wpc>>
    /\ UNCHANGED <<run_recorded, writer_thread, wstate, pending, committed,
                   ctl, client, accepted, sealed, batches>>

\* self._write_batch(cursor, batch): one INSERT per event of the batch
WriterWrite(w) ==
    /\ wstate[w] = "alive"
    /\ wpc[w] = "w_write"
    /\ pending' = [pending EXCEPT ![w] = @ \o batch[w]]
    /\ batches' = batches \cup {batch[w]}
    /\ wpc' = [wpc EXCEPT ![w] = "w_commit"]
    /\ UNCHANGED <<sinkState, batch, committed, ctl, client, removed,
                   accepted, sealed>>

\* conn.commit()
WriterCommit(w) ==
    /\ wstate[w] = "alive"
    /\ wpc[w] = "w_commit"
    /\ committed' = committed \o pending[w]
    /\ pending' = [pending EXCEPT ![w] = <<>>]
    /\ batch' = [batch EXCEPT ![w] = <<>>]
    /\ wpc' = [wpc EXCEPT ![w] = "w_loop"]
    /\ UNCHANGED <<sinkState, ctl, client, sinkHistory>>

\* writer whose loop is ended by an error of the store.
WriterWriteFault_Dies(w) ==
    /\ wstate[w] = "alive"
    /\ wpc[w] = "w_write"
    /\ batches' = batches \cup {batch[w]}
    /\ wstate' = [wstate EXCEPT ![w] = "dead"]
    /\ wpc' = [wpc EXCEPT ![w] = "w_none"]
    /\ UNCHANGED <<sink_running, sink_queue, run_recorded, writer_thread,
                   batch, pending, committed, ctl, client, removed, accepted,
                   sealed>>

\* self._write_batch(cursor, batch) raises at one of its INSERTs: the rows
\* executed before it stay in the open transaction of the connection (no
\* rollback is made), `except Exception: continue` goes to the loop test
WriterWriteFault(w) ==
    /\ wstate[w] = "alive"
    /\ wpc[w] = "w_write"
    /\ \E k \in 0..(Len(batch[w]) - 1) :
           pending' = [pending EXCEPT ![w] = @ \o SubSeq(batch[w], 1, k)]
    /\ batches' = batches \cup {batch[w]}
    /\ wpc' = [wpc EXCEPT ![w] = "w_loop"]
    /\ UNCHANGED <<sinkState, batch, committed, ctl, client, removed,
                   accepted, sealed>>

\* conn.commit() raises: the transaction stays open with its rows,
\* `except Exception: continue` goes to the loop test
WriterCommitFault(w) ==
    /\ wstate[w] = "alive"
    /\ wpc[w] = "w_commit"
    /\ wpc' = [wpc EXCEPT ![w] = "w_loop"]
    /\ UNCHANGED <<sinkState, batch, pending, committed, ctl, client,
                   sinkHistory>>

\* conn.close(); the thread ends
WriterClose(w) ==
    /\ wstate[w] = "alive"
    /\ wpc[w] = "w_close"
    /\ wstate' = [wstate EXCEPT ![w] = "dead"]
    /\ wpc' = [wpc EXCEPT ![w] = "w_none"]
    /\ UNCHANGED <<sink_running, sink_queue, run_recorded, writer_thread,
                   batch, pending, committed, ctl, client, sinkHistory>>

WriterStep(w) ==
    \/ WriterLoop(w) \/ WriterGet(w) \/ WriterFill(w)
    \/ WriterWrite(w) \/ WriterCommit(w) \/ WriterClose(w)

\* the steps of the controlling thread inside SqlLogger.start / stop
SinkCtlStep ==
    \/ SinkStartFlag \/ SinkStartThread \/ SinkStartRun
    \/ SinkStopFlag \/ SinkStopPut \/ SinkStopJoin

\* ====================================================================
\* State that only some of the specifications below put to work: the end
\* time of the run row, the wall clock and the tick times the watchdog
\* compares, the watchdog's own position, and the timing of one worker's
\* loop.  The actions on it follow the kernel's.

VARIABLES
    run_ended,      \* the store: ended_at of the row of self.run_id is set
    now,            \* time.time(), in seconds
    last_tick_ts,   \* per worker object: Subsystem.last_tick_ts
    wdpc,           \* watchdog: position in _watchdog_loop
    wd_now,         \* watchdog: the local `now`
    wd_list,        \* watchdog: the list `for s in self.subsystems` walks
    wd_idx,         \* watchdog: position in that list
    q_size,         \* watchdog: the local `q_size`
    wd_periods,     \* history: periods the watchdog has completed
    stalls,         \* history: <<period, worker object>> reported as stalled
    qstats,         \* history: the QueueStat events logged, in order
    perf,           \* time.perf_counter(), in hundredths of a second
    rpc,            \* the worker followed: position in Subsystem.run
    next_tick_time, \* the worker followed: the local `next_tick_time`
    loop_start,     \* the worker followed: the local `loop_start`
    work_end,       \* the worker followed: the local `work_end`
    sleep_duration, \* the worker followed: the local `sleep_duration`
    tick_count,     \* the worker followed: Subsystem.tick_count
    first_tick_time,\* history: the first value of `next_tick_time`
    lates           \* history: loop_start - next_tick_time of every pass

storeExt == <<run_ended>>
clockVars == <<now, last_tick_ts>>
wdVars == <<wdpc, wd_now, wd_list, wd_idx, q_size, wd_periods, stalls, qstats>>
runVars == <<perf, rpc, next_tick_time, loop_start, work_end, sleep_duration,
             tick_count, first_tick_time, lates>>
extVars == <<storeExt, clockVars, wdVars, runVars>>

\* ====================================================================
\* CitySimulation (src/GP/V2/src/core/kernel.py) and the worker threads
\* (src/GP/V2/src/subsystems).
\*
\* The controlling thread (the dashboard callback) calls bootstrap(), start()
\* and stop(); logger.start() and logger.stop() are the SqlLogger steps
\* above, made as nested calls, and ev_buffer.close() is BoundedBuffer.close
\* executed by buffer thread CtlThread.  Every Subsystem, the watchdog and
\* the scenario manager are threading.Thread objects with a life of their
\* own; start() on an object that was started before and join() on one that
\* was never started raise RuntimeError.  A worker that is Traffic calls
\* put(timeout=0.2) as buffer thread Traffic, one that is Energy calls
\* get(timeout=0.05) as buffer thread Energy.  The watchdog's periods and
\* the timing of run() have sections of their own below.  Left out:
\* toggle_scenario and the PowerOutage settings, and the metric events the
\* workers log inside execute_tick.

Traffic == 1
Energy == 2
Water == 3
CtlThread == 3

\* Thread objects made for workers: three by every bootstrap()
WorkerIds == 1..(3 * MaxCtlCalls)

\* kind of worker i: bootstrap makes Traffic, Energy, Water in this order
KindOf(i) == ((i - 1) % 3) + 1

VARIABLES
    running,        \* CitySimulation.running (threading.Event)
    subsystems,     \* CitySimulation.subsystems
    tstate,         \* per worker Thread object: "none", "new", "alive", "dead"
    wd_state,       \* CitySimulation._watchdog_thread: "new", "alive", "dead"
    sm_state,       \* CitySimulation.scenario_manager: "new", "alive", "dead"
    sm_stop_event,  \* ScenarioManager._stop_event
    kidx,           \* controlling thread: position of a `for s in subsystems`
    wkpc,           \* per worker Thread object: position in Subsystem.run
    todo,           \* per worker Thread object: passes left in its tick's loop
    ksnap,          \* history: kernel state when the current call was made
    stop_log        \* history: what the current stop() has done so far

kernState == <<running, subsystems, tstate, wd_state, sm_state, sm_stop_event>>
workerLocals == <<wkpc, todo>>
kernVars == <<kernState, kidx, workerLocals, ksnap, stop_log>>

NoKSnap == [running |-> FALSE, subsystems |-> <<>>, started |-> {},
            wd_state |-> "new", sm_state |-> "new", sink_running |-> FALSE,
            writer_thread |-> 1, run_recorded |-> FALSE, closed |-> FALSE]

\* worker Thread objects that were started at some time
Started == {i \in WorkerIds : tstate[i] \in {"alive", "dead"}}

TakeKSnap == [running |-> running, subsystems |-> subsystems,
              started |-> Started, wd_state |-> wd_state,
              sm_state |-> sm_state, sink_running |-> sink_running,
              writer_thread |-> writer_thread, run_recorded |-> run_recorded,
              closed |-> closed]

\* CitySimulation.__init__
KernelInit ==
    /\ running = FALSE
    /\ subsystems = <<>>
    /\ tstate = [i \in WorkerIds |-> "none"]
    /\ wd_state = "new"
    /\ sm_state = "new"
    /\ sm_stop_event = FALSE
    /\ kidx = 0
    /\ wkpc = [i \in WorkerIds |-> "none"]
    /\ todo = [i \in WorkerIds |-> 0]
    /\ ksnap = NoKSnap
    /\ stop_log = <<>>

\* no run row has an end time (start() inserts id and started_at only); the
\* clock starts at 0 and no worker object exists
ExtInit ==
    /\ run_ended = FALSE
    /\ now = 0
    /\ last_tick_ts = [i \in WorkerIds |-> 0]
    /\ wdpc = "wd_test"
    /\ wd_now = 0
    /\ wd_list = <<>>
    /\ wd_idx = 0
    /\ q_size = 0
    /\ wd_periods = 0
    /\ stalls = {}
    /\ qstats = <<>>
    /\ perf = 0
    /\ rpc = "begin"
    /\ next_tick_time = 0
    /\ loop_start = 0
    /\ work_end = 0
    /\ sleep_duration = 0
    /\ tick_count = 0
    /\ first_tick_time = 0
    /\ lates = <<>>

\* everything outside CitySimulation and its workers stays as it is
OutsideKernel == UNCHANGED <<vars, sinkVars, extVars>>

\* a call of bootstrap(), start() or stop() from the top level
KernelCall(o, first) ==
    /\ CtlCall(o, first)
    /\ ksnap' = TakeKSnap
    /\ stop_log' = IF o = "stop" THEN <<>> ELSE stop_log
    /\ UNCHANGED <<kernState, kidx, workerLocals>>
    /\ OutsideKernel

\* the controlling thread calls a SqlLogger method from inside a kernel call
NestedCall(first, back) ==
    /\ cpc' = first
    /\ cret' = back
    /\ UNCHANGED <<cop, cres, ccalls>>

\* the controlling thread goes on inside the same call
CtlGoto(next) ==
    /\ cpc' = next
    /\ UNCHANGED <<cop, cres, cret, ccalls>>

\* ------------------------------------------------ CitySimulation.bootstrap
BootstrapCall == KernelCall("bootstrap", "boot_sink")

\* if not self.logger._running: self.logger.start()
BootSink ==
    /\ cpc = "boot_sink"
    /\ IF sink_running
       THEN CtlGoto("boot_workers")
       ELSE NestedCall("start_flag", "boot_workers")
    /\ UNCHANGED kernVars
    /\ OutsideKernel

\* number of worker Thread objects made so far
WorkersMade == Cardinality({i \in WorkerIds : tstate[i] # "none"})

\* traffic = TrafficSubsystem(...); energy = ...; water = ...;
\* self.subsystems = [traffic, energy, water]; Subsystem.__init__ sets
\* last_tick_ts = time.time()
BootWorkers ==
    /\ cpc = "boot_workers"
    /\ LET n == WorkersMade
       IN  /\ tstate' = [i \in WorkerIds |->
                            IF i \in (n + 1)..(n + 3) THEN "new" ELSE tstate[i]]
           /\ subsystems' = <<n + 1, n + 2, n + 3>>
           /\ last_tick_ts' = [i \in WorkerIds |->
                                  IF i \in (n + 1)..(n + 3) THEN now
                                  ELSE last_tick_ts[i]]
    /\ CtlReturn("ok")
    /\ UNCHANGED <<running, wd_state, sm_state, sm_stop_event, kidx,
                   workerLocals, ksnap, stop_log>>
    /\ UNCHANGED <<vars, sinkVars, storeExt, now, wdVars, runVars>>

\* ---------------------------------------------------- CitySimulation.start
StartCall == KernelCall("start", "kstart_check")

\* if self.running.is_set(): return;  self.running.set()
StartCheck ==
    /\ cpc = "kstart_check"
    /\ IF running
       THEN /\ CtlReturn("ok")
            /\ UNCHANGED <<running, kidx>>
       ELSE /\ running' = TRUE
            /\ kidx' = 1
            /\ CtlGoto("kstart_workers")
    /\ UNCHANGED <<subsystems, tstate, wd_state, sm_state, sm_stop_event,
                   workerLocals, ksnap, stop_log>>
    /\ OutsideKernel

\* for s in self.subsystems: s.start()
StartWorkers ==
    /\ cpc = "kstart_workers"
    /\ IF kidx > Len(subsystems)
       THEN /\ CtlGoto("kstart_watchdog")
            /\ UNCHANGED <<tstate, wkpc, kidx>>
       ELSE IF tstate[subsystems[kidx]] = "new"
            THEN /\ tstate' = [tstate EXCEPT ![subsystems[kidx]] = "alive"]
                 /\ wkpc' = [wkpc EXCEPT ![subsystems[kidx]] = "loop"]
                 /\ kidx' = kidx + 1
                 /\ CtlGoto("kstart_workers")
            ELSE /\ CtlReturn("RuntimeError")
                 /\ UNCHANGED <<tstate, wkpc, kidx>>
    /\ UNCHANGED <<running, subsystems, wd_state, sm_state, sm_stop_event,
                   todo, ksnap, stop_log>>
    /\ OutsideKernel

\* self._watchdog_thread.start()
StartWatchdog ==
    /\ cpc = "kstart_watchdog"
    /\ IF wd_state = "new"
       THEN /\ wd_state' = "alive"
            /\ CtlGoto("kstart_scenario")
       ELSE /\ CtlReturn("RuntimeError")
            /\ UNCHANGED wd_state
    /\ UNCHANGED <<running, subsystems, tstate, sm_state, sm_stop_event, kidx,
                   workerLocals, ksnap, stop_log>>
    /\ OutsideKernel

\* self.scenario_manager.start()
StartScenario ==
    /\ cpc = "kstart_scenario"
    /\ IF sm_state = "new"
       THEN /\ sm_state' = "alive"
            /\ CtlReturn("ok")
       ELSE /\ CtlReturn("RuntimeError")
            /\ UNCHANGED sm_state
    /\ UNCHANGED <<running, subsystems, tstate, wd_state, sm_stop_event, kidx,
                   workerLocals, ksnap, stop_log>>
    /\ OutsideKernel

\* ----------------------------------------------------- CitySimulation.stop
StopCall == KernelCall("stop", "kstop_clear")

\* self.running.clear()
StopClear ==
    /\ cpc = "kstop_clear"
    /\ running' = FALSE
    /\ stop_log' = Append(stop_log, "clear")
    /\ CtlGoto("kstop_scenario")
    /\ UNCHANGED <<subsystems, tstate, wd_state, sm_state, sm_stop_event, kidx,
                   workerLocals, ksnap>>
    /\ OutsideKernel

\* stop() that goes from the scenario manager straight to the joins.
StopScenario_JoinFirst ==
    /\ cpc = "kstop_scenario"
    /\ sm_stop_event' = TRUE
    /\ kidx' = 1
    /\ CtlGoto("kstop_join")
    /\ UNCHANGED <<running, subsystems, tstate, wd_state, sm_state,
                   workerLocals, ksnap, stop_log>>
    /\ OutsideKernel

\* self.scenario_manager.stop()
StopScenario ==
    /\ cpc = "kstop_scenario"
    /\ sm_stop_event' = TRUE
    /\ CtlGoto("kstop_close")
    /\ UNCHANGED <<running, subsystems, tstate, wd_state, sm_state, kidx,
                   workerLocals, ksnap, stop_log>>
    /\ OutsideKernel

\* a kernel thread enters `with self._lock:` of a BoundedBuffer method
BufferEnter(t, o, first, i, to) ==
    /\ pc[t] = "idle"
    /\ lock = NoThread
    /\ lock' = t
    /\ pc' = [pc EXCEPT ![t] = first]
    /\ op' = [op EXCEPT ![t] = o]
    /\ item' = [item EXCEPT ![t] = i]
    /\ timeout' = [timeout EXCEPT ![t] = to]
    /\ snap' = [snap EXCEPT ![t] = TakeSnap]
    /\ closedAtCall' = [closedAtCall EXCEPT ![t] = closed]
    /\ UNCHANGED <<bufState, waiters, signalled, success, ret, blockedAtClose,
                   history>>

\* self.ev_buffer.close(): called
StopClose ==
    /\ cpc = "kstop_close"
    /\ BufferEnter(CtlThread, "close", "close_set", NoItem, FALSE)
    /\ CtlGoto("kstop_closing")
    /\ UNCHANGED <<nextItem, calls, sinkVars, kernVars, extVars>>

\* self.ev_buffer.close(): returned
StopClosed ==
    /\ cpc = "kstop_closing"
    /\ Exit(CtlThread)
    /\ stop_log' = Append(stop_log, "close")
    /\ kidx' = 1
    /\ CtlGoto("kstop_join")
    /\ UNCHANGED <<sinkVars, kernState, workerLocals, ksnap, extVars>>

\* for s in self.subsystems: s.join(timeout=1.0): it returns when the
\* thread has ended or the timeout has expired
StopJoin ==
    /\ cpc = "kstop_join"
    /\ IF kidx > Len(subsystems)
       THEN /\ NestedCall("stop_flag", "kstop_done")
            /\ stop_log' = Append(stop_log, "sink")
            /\ UNCHANGED kidx
       ELSE /\ stop_log' = Append(stop_log, "join")
            /\ IF tstate[subsystems[kidx]] = "new"
               THEN /\ CtlReturn("RuntimeError")
                    /\ UNCHANGED kidx
               ELSE /\ kidx' = kidx + 1
                    /\ CtlGoto("kstop_join")
    /\ UNCHANGED <<kernState, workerLocals, ksnap>>
    /\ OutsideKernel

\* logger.info("Simulation Stopped."); stop() returns
StopDone ==
    /\ cpc = "kstop_done"
    /\ CtlReturn("ok")
    /\ UNCHANGED kernVars
    /\ OutsideKernel

\* ------------------------------------------- the kernel's helper threads
\* _watchdog_loop: `while self.running.is_set()` is found false
WatchdogExit ==
    /\ wd_state = "alive"
    /\ ~running
    /\ wd_state' = "dead"
    /\ UNCHANGED <<running, subsystems, tstate, sm_state, sm_stop_event, kidx,
                   workerLocals, ksnap, stop_log, ctl>>
    /\ OutsideKernel

\* ScenarioManager.run: self._stop_event.wait() returns
ScenarioExit ==
    /\ sm_state = "alive"
    /\ sm_stop_event
    /\ sm_state' = "dead"
    /\ UNCHANGED <<running, subsystems, tstate, wd_state, sm_stop_event, kidx,
                   workerLocals, ksnap, stop_log, ctl>>
    /\ OutsideKernel

\* --------------------------------------- CitySimulation._watchdog_loop
\* One pass of the loop is a period.  The two seconds of time.sleep(2.0) are
\* the only time that passes; every worker thread that is alive ticks in
\* them (its interval is 0.5 s) and so stamps last_tick_ts.  Seconds are
\* whole numbers.
WD_SLEEP == 2
STALL_AFTER == 5
\* Periods of the watchdog in one behaviour.
MaxPeriods == 3

\* the rest of the state, which no step of the watchdog touches
OutsideWatchdog ==
    UNCHANGED <<vars, ctl, storeExt, runVars, running, subsystems, tstate,
                sm_state, sm_stop_event, kidx, workerLocals, ksnap, stop_log,
                sink_running, run_recorded, writer_thread, wstate,
                writerLocals, committed, client, sinkHistory>>

\* self.logger.log(event) made by the watchdog: the event is put on the
\* sink's queue if the sink is running and is dropped if it is not
WdLog(events) ==
    sink_queue' = IF sink_running THEN sink_queue \o events ELSE sink_queue

\* while self.running.is_set(): the next period begins, or the loop ends
\* and with it the thread
WdTest ==
    /\ wd_state = "alive"
    /\ wdpc = "wd_test"
    /\ IF running
       THEN /\ wd_periods < MaxPeriods
            /\ wdpc' = "wd_sleep"
            /\ UNCHANGED wd_state
       ELSE /\ wd_state' = "dead"
            /\ UNCHANGED wdpc
    /\ UNCHANGED <<wd_now, wd_list, wd_idx, q_size, wd_periods, stalls,
                   qstats, clockVars, sink_queue>>
    /\ OutsideWatchdog

\* time.sleep(2.0); now = time.time(); `for s in self.subsystems` begins
WdSleep ==
    /\ wd_state = "alive"
    /\ wdpc = "wd_sleep"
    /\ now' = now + WD_SLEEP
    /\ last_tick_ts' = [i \in WorkerIds |->
                           IF tstate[i] = "alive" THEN now + WD_SLEEP
                           ELSE last_tick_ts[i]]
    /\ wd_now' = now + WD_SLEEP
    /\ wd_list' = subsystems
    /\ wd_idx' = 1
    /\ wdpc' = "wd_stall"
    /\ UNCHANGED <<wd_state, q_size, wd_periods, stalls, qstats, sink_queue>>
    /\ OutsideWatchdog

\* one pass of `for s in self.subsystems`: time_since_tick = now -
\* s.last_tick_ts; if it is more than 5.0 a stall_detected event naming
\* s.name is logged
WdStall ==
    /\ wd_state = "alive"
    /\ wdpc = "wd_stall"
    /\ IF wd_idx > Len(wd_list)
       THEN /\ wdpc' = "wd_size"
            /\ UNCHANGED <<wd_idx, stalls, sink_queue>>
       ELSE /\ IF wd_now - last_tick_ts[wd_list[wd_idx]] > STALL_AFTER
               THEN /\ stalls' = stalls \cup {<<wd_periods, wd_list[wd_idx]>>}
                    /\ WdLog(<<[event |-> "stall_detected",
                                target |-> KindOf(wd_list[wd_idx])]>>)
               ELSE UNCHANGED <<stalls, sink_queue>>
            /\ wd_idx' = wd_idx + 1
            /\ UNCHANGED wdpc
    /\ UNCHANGED <<wd_state, wd_now, wd_list, q_size, wd_periods, qstats,
                   clockVars>>
    /\ OutsideWatchdog

\* q_size = self.ev_buffer.qsize(): the length read under the lock
WdSize ==
    /\ wd_state = "alive"
    /\ wdpc = "wd_size"
    /\ lock = NoThread
    /\ q_size' = Len(buffer)
    /\ wdpc' = "wd_stat"
    /\ UNCHANGED <<wd_state, wd_now, wd_list, wd_idx, wd_periods, stalls,
                   qstats, clockVars, sink_queue>>
    /\ OutsideWatchdog

\* the QueueStatEvent of a period
QueueStat ==
    [event |-> "queue_stat", size |-> q_size, capacity |-> capacity,
     dropped |-> stats.drop_count]

\* watchdog that reports the channel only when it is full.
WdStat_OnlyWhenFull ==
    /\ wd_state = "alive"
    /\ wdpc = "wd_stat"
    /\ IF q_size = capacity
       THEN /\ qstats' = Append(qstats, QueueStat)
            /\ WdLog(<<QueueStat>>)
       ELSE UNCHANGED <<qstats, sink_queue>>
    /\ wd_periods' = wd_periods + 1
    /\ wdpc' = "wd_test"
    /\ UNCHANGED <<wd_state, wd_now, wd_list, wd_idx, q_size, stalls,
                   clockVars>>
    /\ OutsideWatchdog

\* self.logger.log(QueueStatEvent(size=q_size, capacity=...,
\* dropped=self.ev_buffer.stats["drop_count"])); the period ends
WdStat ==
    /\ wd_state = "alive"
    /\ wdpc = "wd_stat"
    /\ qstats' = Append(qstats, QueueStat)
    /\ WdLog(<<QueueStat>>)
    /\ wd_periods' = wd_periods + 1
    /\ wdpc' = "wd_test"
    /\ UNCHANGED <<wd_state, wd_now, wd_list, wd_idx, q_size, stalls,
                   clockVars>>
    /\ OutsideWatchdog

WatchdogStep == WdTest \/ WdSleep \/ WdStall \/ WdSize \/ WdStat

\* ------------------------------------------------------- Subsystem.run
\* Requests Traffic puts in one tick: random.randint(2, 4) in the source,
\* 2..MaxRequests here.
MaxRequests == 2
\* Items Energy gets in one tick at most: max_items, 3 in the source and 1
\* under PowerOutage.
MaxItems == 1
\* No tick begins on an open channel once this many channel calls were made.
MaxTickCalls == 2

\* passes of the loop in execute_tick; Water uses no channel
TickPasses(k) ==
    IF k = Traffic THEN 2..MaxRequests
    ELSE IF k = Energy THEN {MaxItems} ELSE {0}

\* while self.simulation.running.is_set(): the next tick begins, or run()
\* returns and the thread ends
WorkerLoop(i) ==
    /\ tstate[i] = "alive"
    /\ wkpc[i] = "loop"
    /\ IF running
       THEN /\ closed \/ calls < MaxTickCalls
            /\ wkpc' = [wkpc EXCEPT ![i] = "tick"]
            /\ \E n \in TickPasses(KindOf(i)) : todo' = [todo EXCEPT ![i] = n]
            /\ UNCHANGED tstate
       ELSE /\ tstate' = [tstate EXCEPT ![i] = "dead"]
            /\ wkpc' = [wkpc EXCEPT ![i] = "none"]
            /\ UNCHANGED todo
    /\ UNCHANGED <<running, subsystems, wd_state, sm_state, sm_stop_event,
                   kidx, ksnap, stop_log, ctl>>
    /\ OutsideKernel

\* self.ev_buffer.put(request, timeout=0.2) in TrafficSubsystem.execute_tick,
\* self.ev_buffer.get(timeout=0.05) in EnergySubsystem.execute_tick: called.
\* The call and item counters stand still once the channel is closed.
WorkerCall(i) ==
    /\ tstate[i] = "alive"
    /\ wkpc[i] = "tick"
    /\ todo[i] > 0
    /\ KindOf(i) \in {Traffic, Energy}
    /\ IF KindOf(i) = Traffic
       THEN BufferEnter(Traffic, "put", "put_closed", nextItem, TRUE)
       ELSE BufferEnter(Energy, "get", "get_loop", NoItem, TRUE)
    /\ calls' = IF closed THEN calls ELSE calls + 1
    /\ nextItem' = IF closed \/ KindOf(i) # Traffic THEN nextItem
                   ELSE nextItem + 1
    /\ todo' = [todo EXCEPT ![i] = @ - 1]
    /\ UNCHANGED <<kernState, kidx, wkpc, ksnap, stop_log, ctl, sinkVars,
                   extVars>>

\* the put or get has returned or raised: Traffic goes on to its next
\* request whatever happened (False is logged, ValueError is passed over);
\* Energy goes on after an item and leaves its loop on None and on
\* StopIteration.  After the last pass execute_tick returns; tick_count, the
\* TickEvent and the sleep follow.
WorkerReturn(i) ==
    /\ tstate[i] = "alive"
    /\ wkpc[i] = "tick"
    /\ KindOf(i) \in {Traffic, Energy}
    /\ Exit(KindOf(i))
    /\ IF todo[i] = 0 \/ (KindOf(i) = Energy /\ ret[Energy].kind # "item")
       THEN /\ todo' = [todo EXCEPT ![i] = 0]
            /\ wkpc' = [wkpc EXCEPT ![i] = "loop"]
       ELSE UNCHANGED <<todo, wkpc>>
    /\ UNCHANGED <<kernState, kidx, ksnap, stop_log, ctl, sinkVars, extVars>>

\* WaterSubsystem.execute_tick returns; tick_count, the TickEvent and the
\* sleep follow
WorkerTickEnd(i) ==
    /\ tstate[i] = "alive"
    /\ wkpc[i] = "tick"
    /\ KindOf(i) = Water
    /\ wkpc' = [wkpc EXCEPT ![i] = "loop"]
    /\ UNCHANGED <<kernState, kidx, todo, ksnap, stop_log, ctl>>
    /\ OutsideKernel

WorkerStep(i) ==
    \/ WorkerLoop(i) \/ WorkerCall(i) \/ WorkerReturn(i) \/ WorkerTickEnd(i)

\* ------------------------------------------- Subsystem.run and its clock
\* One worker is followed through run() with the readings of
\* time.perf_counter() it takes.  Time is counted in hundredths of a second
\* and passes in execute_tick and in time.sleep only; the statements between
\* them take no time.  Of execute_tick it is seen how long it takes and
\* whether it returns or raises; a sleep ends when asked or a little later.

\* the worker followed: the first that the first bootstrap() makes
Runner == Traffic
\* interval=0.5 of the workers bootstrap() makes
Interval == 50
\* time.sleep(0.01)
MinSleep == 1
\* A sleep ends at most this long after the time asked for.
MaxJitter == 1
\* No pass of the loop begins once tick_count has reached this.
MaxIter == 3
\* how long an execute_tick takes: less than the interval, or more than it by
\* less than the interval
WorkTimes == {20, 70}

OutsideRun ==
    UNCHANGED <<vars, ctl, storeExt, now, wdVars, running, subsystems,
                wd_state, sm_state, sm_stop_event, kidx, todo, ksnap,
                stop_log, sink_running, run_recorded, writer_thread, wstate,
                writerLocals, committed, client, sinkHistory>>

\* next_tick_time = time.perf_counter(), some time after the thread's start
RunBegin ==
    /\ tstate[Runner] = "alive"
    /\ rpc = "begin"
    /\ \E t \in 0..MaxJitter :
           /\ perf' = perf + t
           /\ next_tick_time' = perf + t
           /\ first_tick_time' = perf + t
    /\ rpc' = "test"
    /\ UNCHANGED <<tstate, wkpc, last_tick_ts, sink_queue, loop_start,
                   work_end, sleep_duration, tick_count, lates>>
    /\ OutsideRun

\* while self.simulation.running.is_set(): loop_start = time.perf_counter(),
\* or run() returns and the thread ends
RunTest ==
    /\ tstate[Runner] = "alive"
    /\ rpc = "test"
    /\ IF running
       THEN /\ tick_count < MaxIter
            /\ loop_start' = perf
            /\ lates' = Append(lates, perf - next_tick_time)
            /\ rpc' = "work"
            /\ UNCHANGED <<tstate, wkpc>>
       ELSE /\ tstate' = [tstate EXCEPT ![Runner] = "dead"]
            /\ wkpc' = [wkpc EXCEPT ![Runner] = "none"]
            /\ rpc' = "done"
            /\ UNCHANGED <<loop_start, lates>>
    /\ UNCHANGED <<perf, next_tick_time, first_tick_time, work_end,
                   sleep_duration, tick_count, last_tick_ts, sink_queue>>
    /\ OutsideRun

\* self.execute_tick() returns; self.last_tick_ts = time.time();
\* self.tick_count += 1; work_end = time.perf_counter()
RunTick ==
    /\ tstate[Runner] = "alive"
    /\ rpc = "work"
    /\ \E d \in WorkTimes :
           /\ perf' = perf + d
           /\ work_end' = perf + d
    /\ last_tick_ts' = [last_tick_ts EXCEPT ![Runner] = now]
    /\ tick_count' = tick_count + 1
    /\ rpc' = "sched"
    /\ UNCHANGED <<tstate, wkpc, next_tick_time, first_tick_time, loop_start,
                   sleep_duration, lates, sink_queue>>
    /\ OutsideRun

\* self.execute_tick() raises: nothing in run() catches, the exception
\* leaves run() and the thread ends
RunRaise ==
    /\ tstate[Runner] = "alive"
    /\ rpc = "work"
    /\ \E d \in WorkTimes : perf' = perf + d
    /\ tstate' = [tstate EXCEPT ![Runner] = "dead"]
    /\ wkpc' = [wkpc EXCEPT ![Runner] = "none"]
    /\ rpc' = "done"
    /\ UNCHANGED <<next_tick_time, first_tick_time, loop_start, work_end,
                   sleep_duration, tick_count, lates, last_tick_ts,
                   sink_queue>>
    /\ OutsideRun

\* the TickEvent of a pass
TickEvent(drift) ==
    [event |-> "tick", subsystem |-> KindOf(Runner), tick_seq |-> tick_count,
     latency_ms |-> perf - loop_start, drift_ms |-> drift,
     work_time_ms |-> work_end - loop_start]

\* worker that schedules its next tick one interval after the end of
\* the work.
RunSched_FromNow ==
    /\ tstate[Runner] = "alive"
    /\ rpc = "sched"
    /\ next_tick_time' = perf + Interval
    /\ sleep_duration' = Interval
    /\ WdLog(<<TickEvent(0 - Interval)>>)
    /\ rpc' = "sleep"
    /\ UNCHANGED <<tstate, wkpc, perf, first_tick_time, loop_start, work_end,
                   tick_count, lates, last_tick_ts>>
    /\ OutsideRun

\* next_tick_time += self.interval;
\* sleep_duration = next_tick_time - time.perf_counter(); the TickEvent is
\* logged
RunSched ==
    /\ tstate[Runner] = "alive"
    /\ rpc = "sched"
    /\ next_tick_time' = next_tick_time + Interval
    /\ sleep_duration' = (next_tick_time + Interval) - perf
    /\ WdLog(<<TickEvent(perf - (next_tick_time + Interval))>>)
    /\ rpc' = "sleep"
    /\ UNCHANGED <<tstate, wkpc, perf, first_tick_time, loop_start, work_end,
                   tick_count, lates, last_tick_ts>>
    /\ OutsideRun

\* time.sleep(sleep_duration) if sleep_duration > 0, else time.sleep(0.01)
RunSleep ==
    /\ tstate[Runner] = "alive"
    /\ rpc = "sleep"
    /\ \E j \in 0..MaxJitter :
           perf' = perf + j
                   + (IF sleep_duration > 0 THEN sleep_duration ELSE MinSleep)
    /\ rpc' = "test"
    /\ UNCHANGED <<tstate, wkpc, next_tick_time, first_tick_time, loop_start,
                   work_end, sleep_duration, tick_count, lates, last_tick_ts,
                   sink_queue>>
    /\ OutsideRun

RunStep == RunBegin \/ RunTest \/ RunTick \/ RunRaise \/ RunSched \/ RunSleep

\* ---------------------------------------------------- specifications
allVars == <<vars, sinkVars, ctl, kernVars, extVars>>

\* the state after CitySimulation.__init__, which makes the channel, the
\* sink and the helper threads; no thread has made a call
Init == BufferInit /\ SinkInit /\ CtlInit /\ KernelInit /\ ExtInit

\* one capacity is enough where the channel is not at work
SmallInit == Init /\ capacity = MaxCapacity

\* the capacity (10 in the source) scaled down so that Traffic finds the
\* channel full
TickInit == Init /\ capacity = 1

\* a step of the buffer alone, of the sink alone
OutsideBuffer == UNCHANGED <<sinkVars, ctl, kernVars, extVars>>
OutsideSink == UNCHANGED <<vars, kernVars, extVars>>

\* The steps a thread takes once it is inside a call.
Progress(t) ==
    \/ PutClosedCheck(t) \/ PutLoop(t) 
    \/ PutTimedOut(t) \/ PutReacquire(t) \/ PutWoke(t) \/ PutAppend(t)
    \/ PutCount(t) \/ PutNotify(t)
    \/ GetLoop(t)  \/ GetTimedOut(t)
    \/ GetReacquire(t) \/ GetWoke(t) \/ GetPop(t) \/ GetCount(t)
    \/ GetNotify(t)
    \/ TryPutCheck(t) \/ TryPutAppend(t)
    \/ TryPutCount(t) \/ TryPutNotify(t)
    \/ CloseSet(t) \/ CloseNotifyEmpty(t)
    \/ CloseNotifyFull(t)
    \/ Exit(t)

\* BoundedBuffer on its own: any thread makes any call at any time.
Next ==
    \E t \in Threads :
        \/ PutCall(t) /\ OutsideBuffer
        \/ GetCall(t) /\ OutsideBuffer
        \/ TryPutCall(t) /\ OutsideBuffer
        \/ CloseCall(t) /\ OutsideBuffer
        \/ PutClosedCheck(t) /\ OutsideBuffer
        \/ PutLoop(t) /\ OutsideBuffer
        \/ PutTimedOut(t) /\ OutsideBuffer
        \/ PutReacquire(t) /\ OutsideBuffer
        \/ PutWoke(t) /\ OutsideBuffer
        \/ PutAppend(t) /\ OutsideBuffer
        \/ PutCount(t) /\ OutsideBuffer
        \/ PutNotify(t) /\ OutsideBuffer
        \/ GetLoop(t) /\ OutsideBuffer
        \/ GetTimedOut(t) /\ OutsideBuffer
        \/ GetReacquire(t) /\ OutsideBuffer
        \/ GetWoke(t) /\ OutsideBuffer
        \/ GetPop(t) /\ OutsideBuffer
        \/ GetCount(t) /\ OutsideBuffer
        \/ GetNotify(t) /\ OutsideBuffer
        \/ TryPutCheck(t) /\ OutsideBuffer
        \/ TryPutAppend(t) /\ OutsideBuffer
        \/ TryPutCount(t) /\ OutsideBuffer
        \/ TryPutNotify(t) /\ OutsideBuffer
        \/ CloseSet(t) /\ OutsideBuffer
        \/ CloseNotifyEmpty(t) /\ OutsideBuffer
        \/ CloseNotifyFull(t) /\ OutsideBuffer
        \/ Exit(t) /\ OutsideBuffer

Spec == Init /\ [][Next]_vars

\* Every thread inside a call is eventually scheduled; a timed wait
\* eventually expires.  Whether a call is made at all is up to the caller.
FairSpec == Spec /\ \A t \in Threads : WF_vars(Progress(t))

\* The buffer with callers that never run out of calls: two producers at
\* most inside put(timeout) and one consumer inside get(timeout), as Traffic
\* and Energy call them tick after tick.  Nothing put and get decide depends
\* on the counters of stats, on the number of calls made, on the identity of
\* the items or on the record of past calls, so all of these start over
\* after every step that has touched them (Recycle) and the buffer is
\* followed through runs of any length in finitely many states.
Fresh ==
    /\ calls = 0
    /\ nextItem = 1
    /\ stats = InitStats
    /\ history = <<<<>>, <<>>, {}, {}>>

Recycle ==
    /\ ~Fresh
    /\ calls' = 0
    /\ nextItem' = 1
    /\ stats' = InitStats
    /\ enq' = <<>>
    /\ deq' = <<>>
    /\ failed' = {}
    /\ succeeded' = {}
    /\ UNCHANGED <<capacity, buffer, closed, lock, waiters, signalled, pc,
                   locals, ret, snap, closedAtCall, blockedAtClose>>

Producers == Cardinality({u \in Threads : pc[u] # "idle" /\ op[u] = "put"})
Consumers == Cardinality({u \in Threads : pc[u] # "idle" /\ op[u] = "get"})

StarveNext ==
    \/ Recycle /\ OutsideBuffer
    \/ \E t \in Threads :
        \/ Fresh /\ PutCall(t) /\ timeout'[t] /\ Producers < 2 /\ OutsideBuffer
        \/ Fresh /\ GetCall(t) /\ timeout'[t] /\ Consumers < 1 /\ OutsideBuffer
        \/ Fresh /\ PutClosedCheck(t) /\ OutsideBuffer
        \/ Fresh /\ PutLoop(t) /\ OutsideBuffer
        \/ Fresh /\ PutTimedOut(t) /\ OutsideBuffer
        \/ Fresh /\ PutReacquire(t) /\ OutsideBuffer
        \/ Fresh /\ PutWoke(t) /\ OutsideBuffer
        \/ Fresh /\ PutAppend(t) /\ OutsideBuffer
        \/ Fresh /\ PutCount(t) /\ OutsideBuffer
        \/ Fresh /\ PutNotify(t) /\ OutsideBuffer
        \/ Fresh /\ GetLoop(t) /\ OutsideBuffer
        \/ Fresh /\ GetTimedOut(t) /\ OutsideBuffer
        \/ Fresh /\ GetReacquire(t) /\ OutsideBuffer
        \/ Fresh /\ GetWoke(t) /\ OutsideBuffer
        \/ Fresh /\ GetPop(t) /\ OutsideBuffer
        \/ Fresh /\ GetCount(t) /\ OutsideBuffer
        \/ Fresh /\ GetNotify(t) /\ OutsideBuffer
        \/ Fresh /\ Exit(t) /\ OutsideBuffer

StarveSpec == TickInit /\ [][StarveNext]_allVars

\* Every thread inside a call whose next step is possible again and again
\* eventually takes a step: it is scheduled, and it gets the lock when the
\* lock is free again and again.  A wait's timeout is a step of its thread
\* like any other: each wait() starts its own timer, so nothing makes a
\* thread time out that is notified before every one of its timers expires.
\* Whether a call is made at all is up to the caller.
FairStarveSpec ==
    /\ StarveSpec
    /\ WF_allVars(Recycle /\ OutsideBuffer)
    /\ \A t \in Threads : SF_allVars(Fresh /\ Progress(t) /\ OutsideBuffer)

\* SqlLogger on its own: the controlling thread calls start() and stop() in
\* any order, the client thread calls log() at any time.
SinkNext ==
    \/ SinkStartCall /\ OutsideSink
    \/ SinkStopCall /\ OutsideSink
    \/ SinkStartFlag /\ OutsideSink
    \/ SinkStartThread /\ OutsideSink
    \/ SinkStartRun /\ OutsideSink
    \/ SinkStopFlag /\ OutsideSink
    \/ SinkStopPut /\ OutsideSink
    \/ SinkStopJoin /\ OutsideSink
    \/ LogCall /\ OutsideSink
    \/ LogPut /\ OutsideSink
    \/ \E w \in WriterIds :
        \/ WriterLoop(w) /\ OutsideSink
        \/ WriterGet(w) /\ OutsideSink
        \/ WriterFill(w) /\ OutsideSink
        \/ WriterWrite(w) /\ OutsideSink
        \/ WriterCommit(w) /\ OutsideSink
        \/ WriterClose(w) /\ OutsideSink

SinkSpec == SmallInit /\ [][SinkNext]_allVars

\* Every thread that can take a step eventually takes one: the writer
\* threads, the controlling thread inside start() or stop(), the client
\* inside log().  Whether start(), stop() or log() is called at all is up to
\* the callers.
FairSinkSpec ==
    /\ SinkSpec
    /\ WF_allVars(SinkCtlStep /\ OutsideSink)
    /\ WF_allVars(LogPut /\ OutsideSink)
    /\ \A w \in WriterIds : WF_allVars(WriterStep(w) /\ OutsideSink)

\* SqlLogger with a store that may fail at any statement and any commit
FaultNext ==
    \/ SinkStartCall /\ OutsideSink
    \/ SinkStopCall /\ OutsideSink
    \/ SinkStartFlag /\ OutsideSink
    \/ SinkStartThread /\ OutsideSink
    \/ SinkStartRun /\ OutsideSink
    \/ SinkStopFlag /\ OutsideSink
    \/ SinkStopPut /\ OutsideSink
    \/ SinkStopJoin /\ OutsideSink
    \/ LogCall /\ OutsideSink
    \/ LogPut /\ OutsideSink
    \/ \E w \in WriterIds :
        \/ WriterLoop(w) /\ OutsideSink
        \/ WriterGet(w) /\ OutsideSink
        \/ WriterFill(w) /\ OutsideSink
        \/ WriterWrite(w) /\ OutsideSink
        \/ WriterWriteFault(w) /\ OutsideSink
        \/ WriterCommit(w) /\ OutsideSink
        \/ WriterCommitFault(w) /\ OutsideSink
        \/ WriterClose(w) /\ OutsideSink

FaultSpec == SmallInit /\ [][FaultNext]_allVars

\* the steps shared by the two specifications of CitySimulation: the calls
\* of start() and stop() and the steps inside bootstrap(), start() and
\* stop(), with the nested SqlLogger calls and the channel's close
KernelStep ==
    \/ StartCall
    \/ StopCall
    \/ BootSink
    \/ BootWorkers
    \/ StartCheck
    \/ StartWorkers
    \/ StartWatchdog
    \/ StartScenario
    \/ StopClear
    \/ StopScenario
    \/ StopClose
    \/ StopClosed
    \/ StopJoin
    \/ StopDone
    \/ SinkStartFlag /\ OutsideSink
    \/ SinkStartThread /\ OutsideSink
    \/ SinkStartRun /\ OutsideSink
    \/ SinkStopFlag /\ OutsideSink
    \/ SinkStopPut /\ OutsideSink
    \/ SinkStopJoin /\ OutsideSink
    \/ CloseSet(CtlThread) /\ OutsideBuffer
    \/ CloseNotifyEmpty(CtlThread) /\ OutsideBuffer
    \/ CloseNotifyFull(CtlThread) /\ OutsideBuffer

\* the threads that work for the kernel: the writer of the sink, the
\* watchdog and the scenario manager
HelperStep ==
    \/ WatchdogExit
    \/ ScenarioExit
    \/ \E w \in WriterIds :
        \/ WriterLoop(w) /\ OutsideSink
        \/ WriterGet(w) /\ OutsideSink
        \/ WriterClose(w) /\ OutsideSink

\* The life cycle of CitySimulation: bootstrap(), start() and stop() are
\* called in any order; of a worker only the end of its run is seen.
LifeNext ==
    \/ BootstrapCall
    \/ KernelStep
    \/ HelperStep
    \/ \E i \in WorkerIds : WorkerLoop(i) /\ ~running

LifeSpec == SmallInit /\ [][LifeNext]_allVars

\* The life cycle of CitySimulation with its watchdog at work: bootstrap(),
\* start() and stop() are called in any order; of a worker its ticks (in
\* the watchdog's sleep) and the end of its run are seen.
StallNext ==
    \/ BootstrapCall
    \/ KernelStep
    \/ WdTest
    \/ WdSleep
    \/ WdStall
    \/ WdSize
    \/ WdStat
    \/ \E i \in WorkerIds : WorkerLoop(i) /\ ~running

StallSpec == SmallInit /\ [][StallNext]_allVars

\* the steps of a worker and of the channel calls it makes
TickStep(i) ==
    \/ WorkerLoop(i)
    \/ WorkerCall(i)
    \/ WorkerReturn(i)
    \/ WorkerTickEnd(i)
    \/ PutClosedCheck(i) /\ OutsideBuffer
    \/ PutLoop(i) /\ OutsideBuffer
    \/ PutTimedOut(i) /\ OutsideBuffer
    \/ PutReacquire(i) /\ OutsideBuffer
    \/ PutWoke(i) /\ OutsideBuffer
    \/ PutAppend(i) /\ OutsideBuffer
    \/ PutCount(i) /\ OutsideBuffer
    \/ PutNotify(i) /\ OutsideBuffer
    \/ GetLoop(i) /\ OutsideBuffer
    \/ GetTimedOut(i) /\ OutsideBuffer
    \/ GetReacquire(i) /\ OutsideBuffer
    \/ GetWoke(i) /\ OutsideBuffer
    \/ GetPop(i) /\ OutsideBuffer
    \/ GetCount(i) /\ OutsideBuffer
    \/ GetNotify(i) /\ OutsideBuffer

\* One run of the simulation with its workers at work: bootstrap() is
\* called once, start() and stop() in any order; Traffic and Energy use the
\* channel.
TickNext ==
    \/ BootstrapCall /\ subsystems = <<>>
    \/ KernelStep
    \/ \E i \in Traffic..Water : TickStep(i)

TickSpec == TickInit /\ [][TickNext]_allVars

\* The orchestrator at work and never stopped: bootstrap() once at most,
\* start(), the workers putting to and getting from the channel, and the
\* watchdog going through its periods meanwhile.
StatNext ==
    \/ BootstrapCall /\ subsystems = <<>>
    \/ StartCall
    \/ BootSink
    \/ BootWorkers
    \/ StartCheck
    \/ StartWorkers
    \/ StartWatchdog
    \/ StartScenario
    \/ SinkStartFlag /\ OutsideSink
    \/ SinkStartThread /\ OutsideSink
    \/ SinkStartRun /\ OutsideSink
    \/ \E i \in Traffic..Water : TickStep(i)
    \/ WdTest
    \/ WdSleep
    \/ WdStall
    \/ WdSize
    \/ WdStat

StatSpec == Init /\ [][StatNext]_allVars

\* The life cycle of CitySimulation with one worker followed through
\* run(): bootstrap() once at most, start() and stop() in any order; of the
\* other workers the end of their run is seen.
RunNext ==
    \/ BootstrapCall /\ subsystems = <<>>
    \/ KernelStep
    \/ RunBegin
    \/ RunTest
    \/ RunTick
    \/ RunRaise
    \/ RunSched
    \/ RunSleep
    \/ \E i \in WorkerIds \ {Runner} : WorkerLoop(i) /\ ~running

RunSpec == SmallInit /\ [][RunNext]_allVars

\* Every thread that can take a step eventually takes one: the workers, the
\* controlling thread inside a call, the writer, the helper threads.
\* Whether bootstrap(), start() or stop() is called at all is up to the
\* caller.
FairTickSpec ==
    /\ TickSpec
    /\ \A i \in Traffic..Water : WF_allVars(TickStep(i))
    /\ WF_allVars(KernelStep /\ cpc # "idle")

\* -------------------------------------------------------- properties
Count(s, i) == Cardinality({k \in 1..Len(s) : s[k] = i})

IsPrefix(s, r) == Len(s) <= Len(r) /\ SubSeq(r, 1, Len(s)) = s

InCall(t, o) == pc[t] # "idle" /\ op[t] = o

\* a call that has its result and is about to leave the lock
Returning(t, o) == pc[t] = "exit" /\ op[t] = o

\* C1: in every reachable state, whatever the capacity and however put, get,
\* try_put and close interleave, the buffer holds between 0 and capacity
\* items.
C1_SizeWithinCapacity == 0 <= Len(buffer) /\ Len(buffer) <= capacity

\* C1 witness: a buffer of capacity 2 or more is full again after a get has
\* taken an item, and a producer is parked in put's wait.
C1_Witness ==
    /\ capacity >= 2
    /\ Len(buffer) = capacity
    /\ stats.gets > 0
    /\ \E t \in Threads : pc[t] = "put_wait"

\* C2: the items taken by gets, in the order they were taken under the lock,
\* are a prefix of the items in the order they were appended.
C2_Fifo == IsPrefix(deq, enq)

\* C2 witness: two gets have taken items that two different calls appended.
C2_Witness == Len(deq) >= 2 /\ Len(enq) >= 3

\* C3: whenever no thread holds the lock, puts = gets + len(buffer).
C3_Conservation ==
    lock = NoThread => stats.puts = stats.gets + Len(buffer)

\* C3 witness: the lock is free after successful puts and gets, a failed
\* put/try_put and a close.
C3_Witness ==
    /\ lock = NoThread
    /\ stats.puts >= 2
    /\ stats.gets >= 1
    /\ failed # {}
    /\ closed

\* C4: every item a get took was appended exactly once and taken exactly
\* once; an item whose put/try_put returned False or raised is never taken
\* by a get; an item whose put/try_put returned True is either still in the
\* buffer or was taken by exactly one get.
C4_ExactlyOnce ==
    /\ \A i \in SeqToSet(deq) : Count(deq, i) = 1 /\ Count(enq, i) = 1
    /\ \A i \in failed : Count(deq, i) = 0
    /\ \A i \in succeeded : Count(buffer, i) + Count(deq, i) = 1

\* C4 witness: one put succeeded and its item was taken, another succeeded
\* and its item is still queued, a third failed.
C4_Witness ==
    /\ failed # {}
    /\ \E i \in succeeded : Count(deq, i) = 1
    /\ \E i \in succeeded : Count(buffer, i) = 1

\* C5: once the closed flag is set the buffer contents never grow: every step
\* taken with closed set leaves the buffer as it is or removes its head, and
\* a removal is a get taking that head.
C5_NoGrowthAfterClose ==
    [][closed =>
          \/ buffer' = buffer
          \/ /\ buffer # <<>>
             /\ buffer' = Tail(buffer)
             /\ \E t \in Threads :
                   /\ op[t] = "get"
                   /\ pc'[t] = "get_count"
                   /\ item'[t] = Head(buffer)]_vars

\* C5 witness: the buffer is closed and still holds an item; a put that was
\* parked in its wait when close happened has failed, and a try_put made
\* after the close is returning False.
C5_Witness ==
    /\ closed
    /\ buffer # <<>>
    /\ Cardinality(failed) >= 2
    /\ stats.waits_for_space > 0
    /\ \E t \in Threads :
          Returning(t, "try_put") /\ ret[t] = RetFalse /\ snap[t].closed

\* C6: a put called on a closed buffer, or inside its wait when close set the
\* flag, ends by raising ValueError.
C6_PutRaisesWhenClosed ==
    \A t \in Threads :
        Returning(t, "put") /\ (closedAtCall[t] \/ blockedAtClose[t])
            => ret[t] = RaiseValueError

\* C6 witness: a put with a timeout whose wait timed out (wait returned False)
\* and that was still inside wait() when close set the flag raises ValueError.
C6_Witness ==
    \E t \in Threads :
        /\ Returning(t, "put")
        /\ blockedAtClose[t]
        /\ timeout[t]
        /\ ~success[t]
        /\ ret[t] = RaiseValueError

\* C7: get raises StopIteration only when the buffer is empty and closed, and
\* a get that takes the lock on a closed, non-empty buffer returns its head.
C7_GetRaisesOnlyWhenDrained ==
    \A t \in Threads :
        Returning(t, "get") =>
            /\ ret[t] = RaiseStopIteration => (buffer = <<>> /\ closed)
            /\ (snap[t].closed /\ snap[t].buf # <<>>) =>
                  /\ ret[t] = RetItem(Head(snap[t].buf))
                  /\ buffer = Tail(snap[t].buf)

\* C7 witness: a get that found the buffer closed with two items queued
\* returns an item.
C7_Witness ==
    \E t \in Threads :
        /\ Returning(t, "get")
        /\ snap[t].closed
        /\ Len(snap[t].buf) >= 2
        /\ ret[t].kind = "item"

\* what a call that was inside wait() when close set the flag may end with
C8_Outcomes(t) ==
    /\ Returning(t, "put") => ret[t] = RaiseValueError
    /\ Returning(t, "get") => ret[t].kind \in {"item", "StopIteration"}

C9_CloseIdempotent ==
    /\ [](\A t \in Threads :
            (Returning(t, "close") /\ snap[t].closed) =>
                /\ buffer = snap[t].buf
                /\ stats = snap[t].stats
                /\ closed
                /\ waiters.not_full = snap[t].nf
                /\ waiters.not_empty = snap[t].ne)
    /\ [][closed => closed']_vars

\* C9 witness: a second close() is returning on a closed buffer that still
\* holds an item.
C9_Witness ==
    \E t \in Threads :
        /\ Returning(t, "close")
        /\ snap[t].closed
        /\ buffer # <<>>
        /\ stats.puts > 0

\* C10: a try_put that returns False left the buffer unchanged and raised
\* drop_count by exactly one, whether it failed on a full or on a closed
\* buffer.
C10_TryPutFailureCounted ==
    \A t \in Threads :
        (Returning(t, "try_put") /\ ret[t] = RetFalse) =>
            /\ buffer = snap[t].buf
            /\ stats.drop_count = snap[t].stats.drop_count + 1

\* positions of a put before it has found free space
PutBeforeAppend == {"put_closed", "put_loop", "put_wait", "put_timedout",
                    "put_woke"}

\* C11: a put with a timeout that finds the channel full, and during which
\* the channel stays full (no item is removed) and open, returns False with
\* the buffer contents, its size and the puts counter as they were before
\* the call and waits_for_space raised; and no step a put takes before it
\* finds free space changes the buffer, the closed flag or any counter other
\* than waits_for_space.
C11_TimedOutPutFrame ==
    /\ [](\A t \in Threads :
            ( /\ Returning(t, "put")
              /\ timeout[t]
              /\ IsFull(snap[t].buf, capacity)
              /\ ~closed
              /\ stats.gets = snap[t].stats.gets ) =>
                /\ ret[t] = RetFalse
                /\ buffer = snap[t].buf
                /\ Len(buffer) = Len(snap[t].buf)
                /\ stats.puts = snap[t].stats.puts
                /\ stats.waits_for_space > snap[t].stats.waits_for_space)
    /\ [][\A t \in Threads :
            (op[t] = "put" /\ pc[t] \in PutBeforeAppend /\ pc'[t] # pc[t]) =>
                /\ buffer' = buffer
                /\ closed' = closed
                /\ stats'.puts = stats.puts
                /\ stats'.gets = stats.gets
                /\ stats'.drop_count = stats.drop_count
                /\ stats'.waits_for_item = stats.waits_for_item
                /\ stats'.waits_for_space \in
                       {stats.waits_for_space, stats.waits_for_space + 1}]_vars

\* C11 witness: a timed put is returning False from a channel that was full
\* when it was called and has stayed full and open, while another thread's
\* try_put was dropped during its wait.
C11_Witness ==
    \E t \in Threads :
        /\ Returning(t, "put")
        /\ timeout[t]
        /\ ret[t] = RetFalse
        /\ IsFull(snap[t].buf, capacity)
        /\ ~closed
        /\ stats.gets = snap[t].stats.gets
        /\ buffer = snap[t].buf
        /\ stats.waits_for_space = snap[t].stats.waits_for_space + 1
        /\ stats.drop_count > snap[t].stats.drop_count

\* no thread holds the lock and every thread is outside a call or asleep in
\* an untimed wait with no notification pending: nothing moves until some
\* thread makes a new call
Quiescent ==
    /\ lock = NoThread
    /\ \A t \in Threads :
          \/ pc[t] = "idle"
          \/ pc[t] \in {"put_wait", "get_wait"} /\ ~signalled[t] /\ ~timeout[t]

\* C12: no lost wakeup: whenever nothing is in progress, no consumer is
\* asleep in get's wait without a pending notification while the buffer
\* holds an item, and no producer is asleep in put's wait without a pending
\* notification while the open buffer has free space.
C12_NoLostWakeup ==
    Quiescent =>
        /\ \A t \in Threads : pc[t] = "get_wait" => IsEmpty(buffer)
        /\ \A t \in Threads :
              pc[t] = "put_wait" => (closed \/ IsFull(buffer, capacity))

\* the sink is at rest: no call of start(), stop() or log() is in progress
\* and no writer thread is alive, so nothing is written unless start() is
\* called again
SinkAtRest ==
    /\ cpc = "idle"
    /\ lpc = "idle"
    /\ \A w \in WriterIds : wstate[w] # "alive"

\* C15: no event ordered before the sentinel is lost: once the sink is at
\* rest, every event whose log() had completed when a stop() pushed its
\* sentinel has been committed to the store.
C15_SealedEventsCommitted ==
    SinkAtRest => sealed \subseteq SeqToSet(committed)

NoDuplicates(s) == \A j, k \in 1..Len(s) : j # k => s[j] # s[k]

\* C16: no event is duplicated by the sink: however log, start and stop are
\* called, every event leaves the queue at most once and is committed to the
\* store at most once, and only events log() accepted are removed and only
\* removed events are committed.
C16_NoDuplicateEvent ==
    /\ NoDuplicates(removed)
    /\ NoDuplicates(committed)
    /\ SeqToSet(removed) \subseteq SeqToSet(accepted)
    /\ SeqToSet(committed) \subseteq SeqToSet(removed)

\* C16 witness: two events are in the store, the second committed by a
\* writer thread made by a restart, after start() and stop() were called
\* three times or more.
C16_Witness ==
    /\ Len(committed) = 2
    /\ wstate[1] = "dead"
    /\ \E w \in WriterIds : w # 1 /\ wstate[w] # "none"
    /\ ccalls >= 3

\* C17: however start() and stop() are called (start twice, start after
\* stop, start while the writer that was told to stop is still alive), at
\* most one writer thread is alive.
C17_OneWriterAlive ==
    Cardinality({w \in WriterIds : wstate[w] = "alive"}) <= 1

\* C17 witness: start() is past its thread step while a sentinel is still in
\* the queue: the first writer, told to stop by a stop() whose join gave up,
\* was found alive and is the only writer alive.
C17_Witness ==
    /\ cpc = "start_run"
    /\ writer_thread = 1
    /\ wstate[1] = "alive"
    /\ Sentinel \in SeqToSet(sink_queue)
    /\ Cardinality({w \in WriterIds : wstate[w] = "alive"}) = 1

\* C18: a start() on a sink that is running, or that was stopped before,
\* returns normally and leaves the sink running.
C18_StartNeverFails ==
    (cpc = "idle" /\ cop = "sink_start" /\ ccalls >= 2) =>
        (cres = "ok" /\ sink_running)

\* what a stop() that ran to its end has done, in order
FullStopLog ==
    <<"clear", "close">> \o [k \in 1..Len(subsystems) |-> "join"] \o <<"sink">>

\* the controlling thread is inside the logger.stop() that stop() makes
InSinkStopOfStop ==
    /\ cop = "stop"
    /\ cpc \in {"stop_flag", "stop_put", "stop_join", "kstop_done"}

\* C13: stop() clears the running flag, then closes the channel, then joins
\* the workers, then stops the sink: what the last stop() has done is always
\* a prefix of clear, close, one join per worker, sink; a join begins only
\* on a closed channel with the flag cleared, and the sink is stopped only
\* after every worker of self.subsystems was joined.
C13_StopOrder ==
    /\ cop = "stop" => IsPrefix(stop_log, FullStopLog)
    /\ (cop = "stop" /\ cpc = "kstop_join") =>
           (closed /\ ~running /\ Len(stop_log) = kidx + 1)
    /\ InSinkStopOfStop =>
           (closed /\ ~running /\ stop_log = FullStopLog)
    /\ (cop = "stop" /\ ~sink_running /\ ksnap.sink_running) =>
           stop_log = FullStopLog

\* a stop() made while the simulation ran has returned after all four steps,
\* one of its joins having timed out on a worker that is still alive
C13_Witness ==
    /\ cpc = "idle"
    /\ cop = "stop"
    /\ cres = "ok"
    /\ ksnap.running
    /\ Len(subsystems) = 3
    /\ stop_log = FullStopLog
    /\ \E k \in 1..Len(subsystems) : tstate[subsystems[k]] = "alive"

\* a bootstrap() made when workers were registered before has returned
BootstrapAgainDone ==
    /\ cpc = "idle"
    /\ cop = "bootstrap"
    /\ ksnap.subsystems # <<>>

\* C19: a bootstrap() called again leaves the worker instances registered in
\* self.subsystems, the channel, the sink and the run as they were: it
\* returns normally and the registered workers are those registered before;
\* when it was called while the simulation ran, they are the workers that
\* were started.
C19_BootstrapIdempotent ==
    BootstrapAgainDone =>
        /\ cres = "ok"
        /\ subsystems = ksnap.subsystems
        /\ closed = ksnap.closed
        /\ ksnap.sink_running =>
               (sink_running /\ writer_thread = ksnap.writer_thread)
        /\ ksnap.running =>
               (\A k \in 1..Len(subsystems) : subsystems[k] \in Started)

\* a start() has returned or raised
StartDone == cpc = "idle" /\ cop = "start"

\* C20: a start() made when the running flag was set returns having started
\* no thread and changed no state; one made when the flag was not set
\* returns normally with the flag set and has started every worker of
\* self.subsystems and the watchdog, each of which had not been started
\* before.
C20_StartIdempotent ==
    StartDone =>
        IF ksnap.running
        THEN /\ cres = "ok"
             /\ running
             /\ Started = ksnap.started
             /\ (wd_state = "new") = (ksnap.wd_state = "new")
             /\ (sm_state = "new") = (ksnap.sm_state = "new")
             /\ subsystems = ksnap.subsystems
        ELSE /\ cres = "ok"
             /\ running
             /\ \A k \in 1..Len(subsystems) :
                    /\ subsystems[k] \in Started
                    /\ subsystems[k] \notin ksnap.started
             /\ ksnap.wd_state = "new"
             /\ wd_state # "new"

\* stop() has cleared the running flag and closed the channel and goes on
\* to join the workers
StopSignalled == cop = "stop" /\ cpc = "kstop_join" /\ ~running /\ closed

\* C14: once stop() has cleared the running flag and closed the channel,
\* every worker thread that is alive, wherever it is in its tick, eventually
\* terminates.
C14_WorkersTerminate ==
    \A i \in Traffic..Water :
        (StopSignalled /\ tstate[i] = "alive") ~> (tstate[i] = "dead")

\* the put or get of worker k is about to raise the channel-closed error
RaisesClosed(k) ==
    /\ pc[k] = "exit"
    /\ ret[k] \in {RaiseValueError, RaiseStopIteration}

\* C27: once a worker's put (Traffic) or get (Energy) has raised the
\* channel-closed error, that worker is in no further put or get on the
\* channel: the call that raised is its last.
C27_ClosedIsTerminal ==
    \A k \in {Traffic, Energy} :
        [](RaisesClosed(k) => [](pc[k] = "idle" => [](pc[k] = "idle")))

\* the overload has shown: Traffic's put has timed out on the full channel
\* and returns False, the request being lost
OverloadShown ==
    /\ Returning(Traffic, "put")
    /\ ret[Traffic] = RetFalse
    /\ IsFull(buffer, capacity)

store == <<run_recorded, committed>>

\* C29: every write to the store is made by the writer thread: a step that
\* changes the store is a step of a writer thread that is alive.
C29_SingleWriter ==
    [][store' # store =>
           \E w \in WriterIds : wstate[w] = "alive" /\ wpc'[w] # wpc[w]]_allVars

\* this step is writer w leaving _write_batch or conn.commit() by an error
FaultStep(w) ==
    /\ wstate[w] = "alive"
    /\ \/ wpc[w] = "w_write" /\ wpc'[w] # "w_write" /\ wpc'[w] # "w_commit"
       \/ wpc[w] = "w_commit" /\ wpc'[w] # "w_commit" /\ committed' = committed

\* C23: an error of the store while a batch is written or committed does
\* not end the writer and reaches no producer: the step of the fault leaves
\* the writer alive at its loop test and the queue, the caller of log() and
\* the caller of start()/stop() as they were; the writer at its loop test
\* can always go on, and log() can always take its next step.
C23_FaultContained ==
    /\ [][\A w \in WriterIds :
              FaultStep(w) =>
                  /\ wstate'[w] = "alive"
                  /\ wpc'[w] = "w_loop"
                  /\ sink_queue' = sink_queue
                  /\ sink_running' = sink_running
                  /\ client' = client
                  /\ ctl' = ctl]_allVars
    /\ [](\A w \in WriterIds :
              (wstate[w] = "alive" /\ wpc[w] = "w_loop") =>
                  ENABLED (WriterLoop(w) /\ OutsideSink))
    /\ [](lpc = "log_put" => ENABLED (LogPut /\ OutsideSink))

\* a batch was lost to a fault (its first event left the queue and is not
\* in the store), the writer that lost it went on and has committed an event
\* that left the queue later, and every log() has returned
C23_Witness ==
    /\ Len(removed) >= 2
    /\ removed[1] \notin SeqToSet(committed)
    /\ removed[Len(removed)] \in SeqToSet(committed)
    /\ wstate[1] = "alive"
    /\ wpc[1] = "w_loop"
    /\ lpc = "idle"
    /\ nextEvent > MaxEvents

\* C30: every batch handed to _write_batch holds between 1 and BATCH_SIZE
\* events, and at any time either all of its events are committed or none
\* is, also when a statement or the commit of the batch has failed.
C30_BatchAtomic ==
    /\ \A w \in WriterIds :
           wpc[w] \in {"w_write", "w_commit"} =>
               Len(batch[w]) \in 1..BATCH_SIZE
    /\ \A b \in batches :
           /\ Len(b) \in 1..BATCH_SIZE
           /\ \/ SeqToSet(b) \subseteq SeqToSet(committed)
              \/ SeqToSet(b) \cap SeqToSet(committed) = {}

\* a stop() has returned normally and the store holds the row of the run
StopDoneWithRun == cpc = "idle" /\ cop = "stop" /\ cres = "ok" /\ run_recorded

\* a bootstrap() that found the sink stopped, and so started it, has ended
BootRestartDone == cpc = "idle" /\ cop = "bootstrap" /\ ~ksnap.sink_running

\* C25: there is one Run record per start of the orchestrator: when stop()
\* has returned, the row of the current run has ended_at set; a bootstrap()
\* that starts the sink returns normally and the run row it inserts is one
\* the store did not hold before.
C25_RunPerStart ==
    /\ StopDoneWithRun => run_ended
    /\ BootRestartDone => (cres = "ok" /\ run_recorded /\ ~ksnap.run_recorded)

\* this step is the watchdog examining one worker of its list
Examines == wdpc = "wd_stall" /\ wd_idx <= Len(wd_list) /\ wd_idx' # wd_idx

\* the thread of the worker named like worker s has ticked in this period
Ticking(s) ==
    \E i \in WorkerIds :
        /\ KindOf(i) = KindOf(s)
        /\ tstate[i] = "alive"
        /\ last_tick_ts[i] = wd_now

\* C21: in each period and for each registered worker a stall_detected
\* event is logged if and only if now - last_tick_ts of that worker is more
\* than STALL_AFTER, and no worker whose thread is ticking is reported as
\* stalled.
C21_StallIffSilent ==
    [][Examines =>
           LET s == wd_list[wd_idx]
               reported == <<wd_periods, s>> \in stalls'
           IN  /\ reported <=> (wd_now - last_tick_ts[s] > STALL_AFTER)
               /\ reported => ~Ticking(s)]_allVars

\* the QueueStat event with the size the watchdog read in this period
StatRead ==
    [event |-> "queue_stat", size |-> q_size, capacity |-> capacity,
     dropped |-> stats.drop_count]

\* C22: in every watchdog period exactly one QueueStat event for the channel
\* is handed to the sink's log(), whatever the size of the channel: the
\* events handed over are as many as the periods ended, the size is the
\* length of the channel read in the period, and the step that ends a period
\* hands over one event with that size, the capacity and the drop_count, which
\* a running sink enqueues.
C22_OneQueueStatPerPeriod ==
    /\ [](Len(qstats) = wd_periods)
    /\ [][wdpc = "wd_size" /\ wdpc' # wdpc => q_size' = Len(buffer)]_allVars
    /\ [][wdpc = "wd_stat" /\ wdpc' = wdpc => q_size' = q_size]_allVars
    /\ [][qstats' # qstats => wd_periods' # wd_periods]_allVars
    /\ [][wd_periods' # wd_periods =>
            /\ wd_periods' = wd_periods + 1
            /\ qstats' = Append(qstats, StatRead)
            /\ sink_running => sink_queue' = Append(sink_queue, StatRead)]_allVars

\* three periods have ended with the channel empty in one, partly filled in
\* another and full in a third, and the running sink holds the three events
C22_Witness ==
    /\ wd_periods = 3
    /\ {qstats[j].size : j \in 1..Len(qstats)} = {0, 1, capacity}
    /\ capacity > 1
    /\ sink_running
    /\ \A j \in 1..3 : \E n \in 1..Len(sink_queue) : sink_queue[n] = qstats[j]

\* the worker followed is inside execute_tick
InTick == tstate[Runner] = "alive" /\ rpc = "work"

\* C26: an exception raised by execute_tick does not end the worker: whatever
\* the step that ends an execute_tick, the worker's thread is alive after it
\* and goes on with its loop.
C26_TickFaultSurvived ==
    [][InTick /\ rpc' # rpc =>
           tstate'[Runner] = "alive" /\ rpc' \in {"sched", "test"}]_allVars

\* how late the pass that has just scheduled its sleep began, and how long
\* its execute_tick took
PassLate == loop_start - (next_tick_time - Interval)
PassWork == work_end - loop_start

\* the sleep of a pass ends and the next pass may begin
Wakes == rpc = "sleep" /\ rpc' = "test"

\* C28: drift compensation in Subsystem.run.  After k completed passes
\* next_tick_time is its first value plus k times the interval, however long
\* the execute_ticks took; the sleep of a pass is the interval less the
\* lateness of the pass and less its work, and a sleep that is left ends at
\* the target; lateness is carried over only as far as lateness and work
\* together exceeded the interval, so it does not add up.
C28_DriftCompensated ==
    /\ [](rpc # "sched" =>
            next_tick_time = first_tick_time + tick_count * Interval)
    /\ [](rpc = "sleep" =>
            sleep_duration = Interval - PassLate - PassWork)
    /\ [][Wakes /\ sleep_duration > 0 =>
            perf' - next_tick_time \in 0..MaxJitter]_allVars
    /\ [][Wakes /\ sleep_duration <= 0 =>
            perf' - next_tick_time
                <= PassLate + PassWork - Interval + MinSleep + MaxJitter]_allVars

\* three passes are completed: the first began on time and overran the
\* interval, so the second began late; the third began on target again
C28_Witness ==
    /\ rpc = "test"
    /\ tick_count = 3
    /\ Len(lates) = 3
    /\ lates[1] = 0
    /\ lates[2] > MaxJitter
    /\ lates[3] \in 0..MaxJitter
    /\ next_tick_time = first_tick_time + 3 * Interval

\* stop() has just pushed its sentinel
SentinelPushed == cpc = "stop_join"

\* writer w is about to take the sentinel in its greedy drain
MeetsSentinelInDrain(w) ==
    /\ wstate[w] = "alive"
    /\ wpc[w] = "w_fill"
    /\ Len(batch[w]) < BATCH_SIZE
    /\ sink_queue # <<>>
    /\ Head(sink_queue) = Sentinel

\* C31: after stop() has pushed the sentinel the writer thread eventually
\* exits; when no writer is alive every event taken from the queue has been
\* committed; and a writer that met the sentinel in its greedy drain does
\* not wait on an empty queue again.
C31_WriterExitsAfterFlush ==
    /\ \A w \in WriterIds :
           [](SentinelPushed /\ wstate[w] = "alive" =>
                  <>(wstate[w] = "dead"))
    /\ []((\A w \in WriterIds : wstate[w] # "alive") =>
              SeqToSet(removed) \subseteq SeqToSet(committed))
    /\ \A w \in WriterIds :
           [](MeetsSentinelInDrain(w) =>
                  [](wpc[w] = "w_get" => sink_queue # <<>>))

\* C32: after a stop() followed by a start() a writer thread is alive and
\* consuming, and no leftover of the previous run leaves the sink marked
\* running with no writer: whenever start() was the last call, has returned,
\* and the sink is marked running, a writer thread is alive.
C32_RestartHasWriter ==
    (cpc = "idle" /\ cop = "sink_start" /\ sink_running) =>
        \E w \in WriterIds : wstate[w] = "alive"

\* C33: right after bootstrap() returns, the channel the workers are wired
\* to is open, also when the bootstrap() follows a stop() on the same
\* CitySimulation.
C33_ChannelOpenAfterBootstrap ==
    (cpc = "idle" /\ cop = "bootstrap") => ~closed

\* C34: a timeout result tells the state of the buffer at the moment of
\* return: a put that returns False holds the lock over a full buffer, a get
\* that returns None holds the lock over an empty buffer.
C34_TimeoutReflectsState ==
    \A t \in Threads :
        /\ (Returning(t, "put") /\ ret[t] = RetFalse) =>
               IsFull(buffer, capacity)
        /\ (Returning(t, "get") /\ ret[t] = RetNone) => IsEmpty(buffer)

\* C35: stop() completes without error in every state of the life cycle it
\* can be called in: when stop() has returned it has returned normally, the
\* running flag is cleared and the sink is stopped.
C35_StopNeverFails ==
    (cpc = "idle" /\ cop = "stop") =>
        (cres = "ok" /\ ~running /\ ~sink_running)

\* C36: every put called with a finite timeout eventually returns True,
\* returns False or raises, fair scheduling given and with other producers
\* and consumers at work.
C36_TimedPutReturns ==
    \A t \in Threads :
        (InCall(t, "put") /\ timeout[t]) ~> Returning(t, "put")
=============================================================================
